---- MODULE Spec2Model ----
(***************************************************************************)
(* Model of the client-side conversation orchestrator (Generator.tsx) and  *)
(* of the session store (utils/sessions.ts) of GeminiProChat.              *)
(*                                                                         *)
(* Text is a sequence of one-character strings.  The browser runs one      *)
(* handler at a time; a handler together with the promise reactions it     *)
(* triggers (the microtask checkpoint that follows it) is one action.      *)
(* localStorage writes are taken to succeed.                               *)
(***************************************************************************)
EXTENDS Integers, Sequences, FiniteSets, TLC

VARIABLES
  mountPc,                  \* "pre": onMount awaits /api/models; "done"
  sessions,                 \* signal sessions()
  storage,                  \* localStorage 'chatSessions' (parsed)
  legacy,                   \* localStorage 'messageList'
  currentSessionId,         \* signal currentSessionId(), NULL when none
  uploadedImages,           \* number of images staged for the next turn
  messageList,              \* signal messageList()
  currentError,             \* signal currentError() is set
  currentAssistantMessage,  \* signal currentAssistantMessage()
  loading,                  \* signal loading()
  controller,               \* signal controller(): request owning it, or NULL
  reqs,                     \* the invocations of requestWithLatestMessage
  nextId,                   \* next session id generateSessionId returns
  now,                      \* Date.now()
  ev,                       \* history: the handler that ran last
  steps,                    \* history: number of steps taken
  convIn, convOut,          \* argument and return of convertReqMsgList
  gwIn, gwOut,              \* a request to the server with its environment,
                            \* and the response
  callIn, callOut,          \* the arguments of a function called on its own
                            \* and what it has produced
  tabs                      \* the signals of each of several pages open on
                            \* the same localStorage

vars == <<mountPc, sessions, storage, legacy, currentSessionId, uploadedImages,
          messageList, currentError, currentAssistantMessage, loading,
          controller, reqs, nextId, now, ev, steps, convIn, convOut,
          gwIn, gwOut, callIn, callOut, tabs>>

orchVars == <<mountPc, sessions, storage, legacy, currentSessionId,
              uploadedImages, messageList, currentError,
              currentAssistantMessage, loading, controller, reqs, nextId,
              now, ev, steps>>

convVars == <<convIn, convOut>>

gwVars == <<gwIn, gwOut>>

sideVars == <<callIn, callOut, tabs>>

(***************************************************************************)
(* Bounds                                                                  *)
(***************************************************************************)
MaxSteps == 6         \* handlers and request steps in one run
MaxPassLen == 3       \* characters of a password
MaxGwMsgs == 2        \* messages of a request to /api/generate
MaxJsonModels == 2    \* entries of MODELS_JSON
MaxListLen == 2       \* sessions of the list given to updateSession
MaxTabSteps == 5      \* handlers run by the pages sharing one localStorage
MaxTitleParts == 2    \* parts of the first user message given to generateSessionTitle
MaxLead == 2          \* model messages ahead of the first user message
MaxConvLen == 4       \* length of the argument of convertReqMsgList

\* null; session ids and controller handles are 1-tuples
NULL == <<>>

(***************************************************************************)
(* Sequences                                                               *)
(***************************************************************************)
Last(s) == s[Len(s)]

Front(s) == SubSeq(s, 1, Len(s) - 1)

RECURSIVE FilterIdx(_, _, _)
\* Array.prototype.filter, from index i on, kept being the indices for which
\* the callback returns true
FilterIdx(s, kept, i) ==
  IF i > Len(s) THEN <<>>
  ELSE (IF i \in kept THEN <<s[i]>> ELSE <<>>) \o FilterIdx(s, kept, i + 1)

RECURSIVE Join(_, _)
\* Array.prototype.join over texts
Join(texts, sep) ==
  IF Len(texts) = 0 THEN <<>>
  ELSE IF Len(texts) = 1 THEN texts[1]
  ELSE texts[1] \o sep \o Join(Tail(texts), sep)

(***************************************************************************)
(* types.ts                                                                *)
(***************************************************************************)
TextPart(t) == [kind |-> "text", text |-> t]

ImagePart == [kind |-> "image", text |-> <<>>]

\* part.text; undefined for an image part, which join renders as ''
PartText(p) == IF p.kind = "text" THEN p.text ELSE <<>>

ChatMessage(role, parts) == [role |-> role, parts |-> parts]

(***************************************************************************)
(* utils/sessions.ts                                                       *)
(***************************************************************************)
TitleLimit == 30

NewChat == <<"N", "e", "w", " ", "C", "h", "a", "t">>

\* generateSessionTitle truncating at 30 characters instead of above 30
GenerateSessionTitle_AtLimit(messages) ==
  LET users == SelectSeq(messages, LAMBDA m : m.role = "user") IN
  IF Len(messages) = 0 THEN NewChat
  ELSE IF Len(users) = 0 THEN NewChat
  ELSE LET content ==
             Join([i \in 1..Len(users[1].parts) |-> PartText(users[1].parts[i])],
                  <<" ">>)
       IN IF Len(content) >= TitleLimit
            THEN SubSeq(content, 1, TitleLimit) \o <<".", ".", ".">>
            ELSE content

GenerateSessionTitle(messages) ==
  LET users == SelectSeq(messages, LAMBDA m : m.role = "user") IN
  IF Len(messages) = 0 THEN NewChat
  ELSE IF Len(users) = 0 THEN NewChat
  ELSE LET content ==
             Join([i \in 1..Len(users[1].parts) |-> PartText(users[1].parts[i])],
                  <<" ">>)
       IN IF Len(content) > TitleLimit
            THEN SubSeq(content, 1, TitleLimit) \o <<".", ".", ".">>
            ELSE content

RECURSIVE InsertDesc(_, _)
\* position of s in a list ordered by updatedAt descending, after its equals
InsertDesc(sorted, s) ==
  IF Len(sorted) = 0 THEN <<s>>
  ELSE IF sorted[1].updatedAt >= s.updatedAt
         THEN <<sorted[1]>> \o InsertDesc(Tail(sorted), s)
         ELSE <<s>> \o sorted

RECURSIVE SortDesc(_)
\* sessions.sort((a, b) => b.updatedAt - a.updatedAt), a stable sort
SortDesc(ss) ==
  IF Len(ss) = 0 THEN <<>>
  ELSE InsertDesc(SortDesc(Front(ss)), Last(ss))

\* stored is the parsed value of the key, <<>> when the key is missing
LoadSessions(stored) == SortDesc(stored)

CreateNewSession(id, t) ==
  [id |-> id, title |-> NewChat, messages |-> <<>>,
   createdAt |-> t, updatedAt |-> t]

\* updateSession stamping every session
UpdateSession_TouchAll(ss, sessionId, messages, title, t) ==
  [i \in 1..Len(ss) |->
     IF ss[i].id = sessionId
       THEN [ss[i] EXCEPT !.messages = messages, !.title = title,
                          !.updatedAt = t]
       ELSE [ss[i] EXCEPT !.updatedAt = t]]

UpdateSession(ss, sessionId, messages, title, t) ==
  [i \in 1..Len(ss) |->
     IF ss[i].id = sessionId
       THEN [ss[i] EXCEPT !.messages = messages, !.title = title,
                          !.updatedAt = t]
       ELSE ss[i]]

DeleteSession(ss, sessionId) ==
  SelectSeq(ss, LAMBDA s : s.id # sessionId)

LegacyAge == 1000

\* localStorage 'messageList': absent, unparsable, or a list of
\* [role, content]
NoLegacy == [kind |-> "none", log |-> <<>>]

CorruptLegacy == [kind |-> "corrupt", log |-> <<>>]

LegacyLog(log) == [kind |-> "log", log |-> log]

\* migrateLegacyData returns a session (not null)
LegacyMigrates(lg) == lg.kind = "log" /\ Len(lg.log) > 0

\* the session migrateLegacyData returns when LegacyMigrates
MigrateLegacyData(lg, id, t) ==
       LET converted ==
             [i \in 1..Len(lg.log) |->
                ChatMessage(IF lg.log[i].role = "assistant" THEN "model"
                                                           ELSE "user",
                            <<TextPart(lg.log[i].content)>>)]
       IN [id |-> id, title |-> GenerateSessionTitle(converted),
           messages |-> converted,
           createdAt |-> t - LegacyAge, updatedAt |-> t - LegacyAge]

\* migrateLegacyData leaving the key in place
LegacyAfterMigration_Kept(lg) == lg

\* the value of 'messageList' after migrateLegacyData
LegacyAfterMigration(lg) ==
  IF LegacyMigrates(lg) THEN NoLegacy ELSE lg

(***************************************************************************)
(* Generator.tsx: the component's signals as one record                    *)
(***************************************************************************)
State ==
  [sessions |-> sessions, storage |-> storage, legacy |-> legacy,
   currentSessionId |-> currentSessionId, uploadedImages |-> uploadedImages,
   messageList |-> messageList, currentError |-> currentError,
   currentAssistantMessage |-> currentAssistantMessage, loading |-> loading,
   controller |-> controller, reqs |-> reqs, nextId |-> nextId]

\* generateSessionId: a fresh id
GenerateSessionId(n) == <<n>>

MaxHistoryMessages == 99

\* a request is pending while its async function is suspended at an await
Pending(rq) == rq.pc # "done"

\* an invocation that has returned; its locals are gone
Returned ==
  [pc |-> "done", aborted |-> FALSE, undecoded |-> FALSE, chunks |-> 0,
   emitted |-> FALSE, clean |-> TRUE, origin |-> NULL, body |-> <<>>,
   replaces |-> NULL, frags |-> <<>>]

\* a request is in flight until its stream ends, fails or is aborted
InFlight(rq) == rq.pc # "done" /\ ~rq.aborted

InFlightSet(rs) == {r \in 1..Len(rs) : InFlight(rs[r])}

\* saveCurrentSession keeping the stored sessions the page does not hold
SaveCurrentSession_Merge(st, t) ==
  IF st.currentSessionId = NULL THEN st
  ELSE LET updatedSessions ==
             UpdateSession(st.sessions, st.currentSessionId, st.messageList,
                           GenerateSessionTitle(st.messageList), t)
           others ==
             SelectSeq(st.storage,
                       LAMBDA s : \A i \in 1..Len(updatedSessions) :
                                    updatedSessions[i].id # s.id)
       IN [st EXCEPT !.sessions = updatedSessions,
                     !.storage = updatedSessions \o others]

SaveCurrentSession(st, t) ==
  IF st.currentSessionId = NULL THEN st
  ELSE LET updatedSessions ==
             UpdateSession(st.sessions, st.currentSessionId, st.messageList,
                           GenerateSessionTitle(st.messageList), t)
       IN [st EXCEPT !.sessions = updatedSessions,
                     !.storage = updatedSessions]

HandleBeforeUnload(st, t) ==
  IF st.currentSessionId # NULL THEN SaveCurrentSession(st, t) ELSE st

\* the session list as it is, the active session's messages not written
SnapshotCurrent_Stale(st, t) == st.sessions

\* the session list with the active session's messages and title written
SnapshotCurrent(st, t) ==
  IF st.currentSessionId # NULL
    THEN UpdateSession(st.sessions, st.currentSessionId, st.messageList,
                       GenerateSessionTitle(st.messageList), t)
    ELSE st.sessions

\* controller().abort(); aborting the controller of a request that is over
\* has no effect
AbortController(st) ==
  IF st.controller = NULL \/ ~Pending(st.reqs[st.controller[1]])
    THEN st.reqs
    ELSE [st.reqs EXCEPT ![st.controller[1]].aborted = TRUE]

\* switchToSession archiving the accumulated text into the session it leaves
SwitchToSession_Archive(st, sessionId, t) ==
  LET kept == IF st.currentAssistantMessage # <<>>
                THEN Append(st.messageList,
                            ChatMessage("model",
                                        <<TextPart(st.currentAssistantMessage)>>))
                ELSE st.messageList
      currentSessions == SnapshotCurrent([st EXCEPT !.messageList = kept], t)
      found == {i \in 1..Len(currentSessions) :
                  currentSessions[i].id = sessionId}
  IN IF found = {} THEN st
     ELSE LET session ==
                currentSessions[CHOOSE i \in found : \A j \in found : i <= j]
          IN [st EXCEPT !.sessions = currentSessions,
                        !.currentError = FALSE,
                        !.currentAssistantMessage = <<>>,
                        !.loading = FALSE,
                        !.reqs = AbortController(st),
                        !.controller = NULL,
                        !.currentSessionId = sessionId,
                        !.messageList = session.messages,
                        !.storage = currentSessions]

SwitchToSession(st, sessionId, t) ==
  LET currentSessions == SnapshotCurrent(st, t)
      found == {i \in 1..Len(currentSessions) :
                  currentSessions[i].id = sessionId}
  IN IF found = {} THEN st
     ELSE LET session ==
                currentSessions[CHOOSE i \in found : \A j \in found : i <= j]
          IN [st EXCEPT !.sessions = currentSessions,
                        !.currentError = FALSE,
                        !.currentAssistantMessage = <<>>,
                        !.loading = FALSE,
                        !.reqs = AbortController(st),
                        !.controller = NULL,
                        !.currentSessionId = sessionId,
                        !.messageList = session.messages,
                        !.storage = currentSessions]

CreateSession(st, t) ==
  LET currentSessions == SnapshotCurrent(st, t)
      newSession == CreateNewSession(GenerateSessionId(st.nextId), t)
      updatedSessions == <<newSession>> \o currentSessions
  IN [st EXCEPT !.nextId = st.nextId + 1,
                !.sessions = updatedSessions,
                !.currentSessionId = newSession.id,
                !.messageList = <<>>,
                !.currentError = FALSE,
                !.currentAssistantMessage = <<>>,
                !.uploadedImages = 0,
                !.storage = updatedSessions]

\* the deletion without the fresh session that replaces the last one
HandleDeleteSession_NoFallback(st, sessionId, t) ==
  LET updatedSessions == DeleteSession(st.sessions, sessionId)
      batched ==
        IF sessionId = st.currentSessionId /\ Len(updatedSessions) > 0
          THEN [st EXCEPT !.sessions = updatedSessions,
                          !.currentSessionId = updatedSessions[1].id,
                          !.messageList = updatedSessions[1].messages,
                          !.currentError = FALSE,
                          !.currentAssistantMessage = <<>>]
          ELSE [st EXCEPT !.sessions = updatedSessions]
  IN [batched EXCEPT !.storage = updatedSessions]

HandleDeleteSession(st, sessionId, t) ==
  LET updatedSessions == DeleteSession(st.sessions, sessionId)
      batched ==
        IF sessionId = st.currentSessionId /\ Len(updatedSessions) > 0
          THEN [st EXCEPT !.sessions = updatedSessions,
                          !.currentSessionId = updatedSessions[1].id,
                          !.messageList = updatedSessions[1].messages,
                          !.currentError = FALSE,
                          !.currentAssistantMessage = <<>>]
          ELSE [st EXCEPT !.sessions = updatedSessions]
      saved == [batched EXCEPT !.storage = updatedSessions]
  IN IF sessionId = saved.currentSessionId /\ Len(updatedSessions) = 0
       THEN CreateSession(saved, t)
       ELSE saved

\* keep a message iff it has no predecessor or its predecessor has another
\* role: the first message of each run instead of the last
ConvertReqMsgList_KeepFirst(originalMsgList) ==
  FilterIdx(originalMsgList,
            {i \in 1..Len(originalMsgList) :
               i = 1 \/ originalMsgList[i - 1].role # originalMsgList[i].role},
            1)

\* keep a message iff it has no successor or its successor has another role
ConvertReqMsgList(originalMsgList) ==
  FilterIdx(originalMsgList,
            {i \in 1..Len(originalMsgList) :
               \/ i = Len(originalMsgList)
               \/ originalMsgList[i].role # originalMsgList[i + 1].role},
            1)

\* Array.prototype.slice(-n)
SliceLast(s, n) ==
  IF Len(s) <= n THEN s ELSE SubSeq(s, Len(s) - n + 1, Len(s))

\* the messages field of the body of the POST to /api/generate
RequestBody(list) ==
  LET requestMessageList ==
        SliceLast([i \in 1..Len(list) |->
                     [role |-> IF list[i].role = "user" THEN "user"
                                                        ELSE "model",
                      parts |-> list[i].parts]],
                  MaxHistoryMessages)
  IN ConvertReqMsgList(requestMessageList)

\* requestWithLatestMessage up to its first await
RequestWithLatestMessage(st) ==
  LET rq == [pc |-> "fetch", aborted |-> FALSE, undecoded |-> FALSE,
             chunks |-> 0, emitted |-> FALSE, clean |-> TRUE,
             origin |-> st.currentSessionId,
             body |-> RequestBody(st.messageList), replaces |-> NULL,
             frags |-> <<>>]
  IN [st EXCEPT !.loading = TRUE,
                !.currentAssistantMessage = <<>>,
                !.currentError = FALSE,
                !.reqs = Append(st.reqs, rq),
                !.controller = <<Len(st.reqs) + 1>>]

ArchiveCurrentMessage(st, t) ==
  IF st.currentAssistantMessage # <<>>
    THEN SaveCurrentSession(
           [st EXCEPT !.messageList =
                        Append(st.messageList,
                               ChatMessage("model",
                                 <<TextPart(st.currentAssistantMessage)>>)),
                      !.currentAssistantMessage = <<>>,
                      !.loading = FALSE,
                      !.controller = NULL], t)
    ELSE st

StopStreamFetch(st, t) ==
  IF st.controller # NULL
    THEN ArchiveCurrentMessage([st EXCEPT !.reqs = AbortController(st)], t)
    ELSE st

\* the request it starts records (history) the length the list had when the
\* model message it regenerates was discarded
RetryLastFetch(st) ==
  IF Len(st.messageList) > 0
    THEN LET discards == Last(st.messageList).role = "model"
             started ==
               RequestWithLatestMessage(
                 IF discards
                   THEN [st EXCEPT !.messageList = Front(st.messageList)]
                   ELSE st)
         IN [started EXCEPT !.reqs[Len(started.reqs)].replaces =
                              IF discards THEN <<Len(st.messageList)>>
                                          ELSE NULL]
    ELSE st

\* the parts of the turn composed from the input and the staged images
TurnParts(inputValue, images) ==
  (IF inputValue # <<>> THEN <<TextPart(inputValue)>> ELSE <<>>)
    \o [i \in 1..images |-> ImagePart]

HandleButtonClick(st, inputValue, t) ==
  IF inputValue = <<>> /\ st.uploadedImages = 0 THEN st
  ELSE LET newMessage ==
             ChatMessage("user", TurnParts(inputValue, st.uploadedImages))
           appended ==
             [st EXCEPT !.messageList = Append(st.messageList, newMessage)]
           saved == SaveCurrentSession(appended, t)
       IN RequestWithLatestMessage([saved EXCEPT !.uploadedImages = 0])

\* the catch block of requestWithLatestMessage, run by request r
CatchBlock(st, r) ==
  [st EXCEPT !.loading = FALSE, !.controller = NULL,
             !.reqs = [st.reqs EXCEPT ![r] = Returned]]

RECURSIVE RejectFrom(_, _)
\* the awaits of the aborted requests reject: each runs its catch block
RejectFrom(st, r) ==
  IF r > Len(st.reqs) THEN st
  ELSE IF st.reqs[r].aborted /\ Pending(st.reqs[r])
         THEN RejectFrom(CatchBlock(st, r), r + 1)
         ELSE RejectFrom(st, r + 1)

\* the microtask checkpoint after a handler
Microtasks(st) == RejectFrom(st, 1)

\* TextDecoder.decode(value, {stream: true}) of one chunk: "H" is a lead
\* byte whose continuation has not arrived; an incomplete sequence that is
\* not continued decodes to the replacement character "?"
DecodeChunk(undecoded, chunk) ==
  (IF undecoded THEN <<"?">> ELSE <<>>) \o (IF chunk = "H" THEN <<>> ELSE <<chunk>>)

\* TextDecoder.decode(): the flush at the end of the stream
DecodeFlush(undecoded) == IF undecoded THEN <<"?">> ELSE <<>>

EndsWithNewline(text) == Len(text) > 0 /\ Last(text) = "\n"

\* one iteration of the read loop that received a chunk
ReadLoopChunk(st, r, chunk) ==
  LET char == DecodeChunk(st.reqs[r].undecoded, chunk)
      rs == [st.reqs EXCEPT ![r].undecoded = (chunk = "H"),
                            ![r].chunks = @ + 1,
                            ![r].frags = Append(@, char),
                            ![r].emitted = @ \/ char # <<>>]
  IN IF char = <<"\n">> /\ EndsWithNewline(st.currentAssistantMessage)
       THEN [st EXCEPT !.reqs = rs]
       ELSE IF char # <<>>
              THEN [st EXCEPT !.reqs = rs,
                              !.currentAssistantMessage = @ \o char]
              ELSE [st EXCEPT !.reqs = rs]

\* the iteration that reads done, the flush and archiveCurrentMessage
ReadLoopDone(st, r, t) ==
  ArchiveCurrentMessage(
    [st EXCEPT !.reqs = [st.reqs EXCEPT ![r] = Returned],
               !.currentAssistantMessage =
                  @ \o DecodeFlush(st.reqs[r].undecoded)], t)

\* the check without the test of the last role
GatewayAcceptsShape_AnyRole(body) ==
  Len(body) > 0

\* the check of the message history in onRequestPost of the gateway
GatewayAcceptsShape(body) ==
  Len(body) > 0 /\ Last(body).role = "user"

\* the session initialisation of onMount, after /api/models has answered
OnMount(st, t) ==
  LET stored == LoadSessions(st.storage)
      migrated ==
        IF LegacyMigrates(st.legacy)
          THEN LET loadedSessions ==
                     <<MigrateLegacyData(st.legacy,
                                         GenerateSessionId(st.nextId), t)>>
                       \o stored
               IN [st EXCEPT !.nextId = st.nextId + 1,
                             !.legacy = LegacyAfterMigration(st.legacy),
                             !.storage = loadedSessions]
          ELSE st
      loadedSessions == IF LegacyMigrates(st.legacy) THEN migrated.storage
                                                     ELSE stored
  IN IF Len(loadedSessions) > 0
       THEN SwitchToSession([migrated EXCEPT !.sessions = loadedSessions],
                            loadedSessions[1].id, t)
       ELSE CreateSession(migrated, t)

(***************************************************************************)
(* The orchestrator as a state machine                                     *)
(***************************************************************************)
InitNow == 3 * LegacyAge

\* a session an earlier visit left in storage
StoredSession ==
  [id |-> <<0>>, title |-> <<"h">>,
   messages |-> <<ChatMessage("user", <<TextPart(<<"h">>)>>),
                  ChatMessage("model", <<TextPart(<<"a">>)>>)>>,
   createdAt |-> LegacyAge, updatedAt |-> LegacyAge]

\* a log an earlier version of the client left
StoredLegacy ==
  LegacyLog(<<[role |-> "user", content |-> <<"h">>],
              [role |-> "assistant", content |-> <<"a">>]>>)

\* what localStorage holds when the page is opened: nothing, the sessions
\* of an earlier visit, or the log of an earlier version
InitStores ==
  {[chatSessions |-> <<>>, messageList |-> NoLegacy],
   [chatSessions |-> <<StoredSession>>, messageList |-> NoLegacy],
   [chatSessions |-> <<>>, messageList |-> StoredLegacy]}

\* the text typed into the input
Inputs == {<<>>, <<"h">>}

\* the chunks a response stream delivers
Chunks == {"a", "\n", "H"}

SessionIds(ss) == {ss[i].id : i \in 1..Len(ss)}

\* the handler that ran, its argument, the request it started or resumed,
\* and what the signals held when it began
Event(op, id, r) ==
  [op |-> op, id |-> id, r |-> r,
   preList |-> messageList, preCur |-> currentSessionId,
   preAcc |-> currentAssistantMessage, preFlight |-> InFlightSet(reqs),
   preLen |-> Len(sessions),
   rq |-> IF r \in 1..Len(reqs) THEN reqs[r] ELSE Returned]

\* a step of a request that is not its last
Progress(op, r) ==
  [op |-> op, id |-> NULL, r |-> r,
   preList |-> <<>>, preCur |-> NULL, preAcc |-> <<>>, preFlight |-> {},
   preLen |-> 0, rq |-> Returned]

NoEvent == Progress("init", 0)

\* a session operation ran while the request was pending
Touched(rs) == [r \in 1..Len(rs) |-> [rs[r] EXCEPT !.clean = FALSE]]

\* one more step of the run
Step == steps < MaxSteps /\ steps' = steps + 1

Commit(st, e) ==
  /\ sessions' = st.sessions
  /\ storage' = st.storage
  /\ legacy' = st.legacy
  /\ currentSessionId' = st.currentSessionId
  /\ uploadedImages' = st.uploadedImages
  /\ messageList' = st.messageList
  /\ currentError' = st.currentError
  /\ currentAssistantMessage' = st.currentAssistantMessage
  /\ loading' = st.loading
  /\ controller' = st.controller
  /\ reqs' = st.reqs
  /\ nextId' = st.nextId
  /\ ev' = e
  /\ Step
  /\ UNCHANGED <<convVars, gwVars, sideVars>>

\* no call of convertReqMsgList has been made on its own
NotCalled == [returned |-> FALSE, value |-> <<>>]

ConvIdle == convIn = <<>> /\ convOut = NotCalled

\* no request has been sent to the server on its own
NoRequest == [endpoint |-> "none"]

NoResponse == [returned |-> FALSE]

GwIdle == gwIn = NoRequest /\ gwOut = NoResponse

\* no function has been called on its own and no page is open besides
NoCall == [fn |-> "none"]

SideIdle == callIn = NoCall /\ callOut = NotCalled /\ tabs = <<>>

OrchInit ==
  /\ mountPc = "pre"
  /\ sessions = <<>>
  /\ \E store \in InitStores :
       storage = store.chatSessions /\ legacy = store.messageList
  /\ currentSessionId = NULL
  /\ uploadedImages = 0
  /\ messageList = <<>>
  /\ currentError = FALSE
  /\ currentAssistantMessage = <<>>
  /\ loading = FALSE
  /\ controller = NULL
  /\ reqs = <<>>
  /\ nextId = 1
  /\ now = InitNow
  /\ ev = NoEvent
  /\ steps = 0

Init == OrchInit /\ ConvIdle /\ GwIdle /\ SideIdle

Mount ==
  /\ mountPc = "pre"
  /\ mountPc' = "done"
  /\ LET st == Microtasks(OnMount(State, now))
     IN Commit([st EXCEPT !.reqs = Touched(st.reqs)], Event("mount", NULL, 0))
  /\ UNCHANGED now

\* time passes
Tick ==
  /\ now' = now + 1
  /\ Step
  /\ UNCHANGED <<mountPc, sessions, storage, legacy, currentSessionId,
                 uploadedImages, messageList, currentError,
                 currentAssistantMessage, loading, controller, reqs, nextId,
                 ev, convVars, gwVars, sideVars>>

\* the upload button, rendered next to the input: handleFileSelect has read
\* one image file
UploadImage ==
  /\ ~loading
  /\ uploadedImages' = uploadedImages + 1
  /\ Step
  /\ UNCHANGED <<mountPc, sessions, storage, legacy, currentSessionId,
                 messageList, currentError, currentAssistantMessage, loading,
                 controller, reqs, nextId, now, ev, convVars, gwVars,
                 sideVars>>

\* the input area is rendered only while loading() is false
CanSend == ~loading

\* the Stop button is rendered only while loading() is true
CanStop == loading

\* the Regenerate button of the last message when it is a model message,
\* or the retry button of the error item
CanRetry ==
  \/ Len(messageList) > 0 /\ Last(messageList).role = "model"
  \/ currentError

Send(inputValue) ==
  /\ CanSend
  /\ inputValue # <<>> \/ uploadedImages > 0
  /\ Commit(Microtasks(HandleButtonClick(State, inputValue, now)),
            Event("send", NULL, Len(reqs) + 1))
  /\ UNCHANGED <<mountPc, now>>

Stop ==
  /\ CanStop
  /\ Commit(Microtasks(StopStreamFetch(State, now)),
            Event("stop", NULL, IF controller = NULL THEN 0 ELSE controller[1]))
  /\ UNCHANGED <<mountPc, now>>

Retry ==
  /\ CanRetry
  /\ Commit(Microtasks(RetryLastFetch(State)),
            Event("retry", NULL, IF Len(messageList) > 0 THEN Len(reqs) + 1
                                                         ELSE 0))
  /\ UNCHANGED <<mountPc, now>>

SwitchTo(id) ==
  /\ id \in SessionIds(sessions)
  /\ LET st == Microtasks(SwitchToSession(State, id, now))
     IN Commit([st EXCEPT !.reqs = Touched(st.reqs)], Event("switch", id, 0))
  /\ UNCHANGED <<mountPc, now>>

CreateNew ==
  /\ LET st == Microtasks(CreateSession(State, now))
     IN Commit([st EXCEPT !.reqs = Touched(st.reqs)],
               Event("create", NULL, 0))
  /\ UNCHANGED <<mountPc, now>>

Delete(id) ==
  /\ id \in SessionIds(sessions)
  /\ LET st == Microtasks(HandleDeleteSession(State, id, now))
     IN Commit([st EXCEPT !.reqs = Touched(st.reqs)], Event("delete", id, 0))
  /\ UNCHANGED <<mountPc, now>>

\* fetch resolves with an ok response that has a body
FetchOk(r) ==
  /\ reqs[r].pc = "fetch"
  /\ GatewayAcceptsShape(reqs[r].body)
  /\ Commit([State EXCEPT !.reqs = [reqs EXCEPT ![r].pc = "read"]],
            Progress("fetchOk", r))
  /\ UNCHANGED <<mountPc, now>>

\* fetch resolves with a response that is not ok: the error is shown
FetchNotOk(r) ==
  /\ reqs[r].pc = "fetch"
  /\ Commit(CatchBlock([State EXCEPT !.currentError = TRUE], r),
            Event("fetchNotOk", NULL, r))
  /\ UNCHANGED <<mountPc, now>>

\* fetch rejects (network failure), or the response has no body
FetchFail(r) ==
  /\ reqs[r].pc = "fetch"
  /\ Commit(CatchBlock(State, r), Event("fetchFail", NULL, r))
  /\ UNCHANGED <<mountPc, now>>

StreamChunk(r, chunk) ==
  /\ reqs[r].pc = "read"
  /\ Commit(ReadLoopChunk(State, r, chunk), Progress("chunk", r))
  /\ UNCHANGED <<mountPc, now>>

StreamEnd(r) ==
  /\ reqs[r].pc = "read"
  /\ Commit(ReadLoopDone(State, r, now), Event("end", NULL, r))
  /\ UNCHANGED <<mountPc, now>>

\* reader.read() rejects: the network fails in the middle of the stream
StreamFail(r) ==
  /\ reqs[r].pc = "read"
  /\ Commit(CatchBlock(State, r), Event("streamFail", NULL, r))
  /\ UNCHANGED <<mountPc, now>>

Next ==
  \/ Mount
  \/ Tick
  \/ UploadImage
  \/ \E inputValue \in Inputs : Send(inputValue)
  \/ Stop
  \/ Retry
  \/ \E id \in SessionIds(sessions) : SwitchTo(id)
  \/ CreateNew
  \/ \E id \in SessionIds(sessions) : Delete(id)
  \/ \E r \in 1..Len(reqs) : FetchOk(r)
  \/ \E r \in 1..Len(reqs) : FetchNotOk(r)
  \/ \E r \in 1..Len(reqs) : FetchFail(r)
  \/ \E r \in 1..Len(reqs), chunk \in Chunks : StreamChunk(r, chunk)
  \/ \E r \in 1..Len(reqs) : StreamEnd(r)
  \/ \E r \in 1..Len(reqs) : StreamFail(r)

Spec == Init /\ [][Next]_vars

(***************************************************************************)
(* convertReqMsgList called on its own, on every list of at most           *)
(* MaxConvLen messages                                                     *)
(***************************************************************************)
ConvRoles == {"user", "model"}

ConvTexts == {<<"h">>, <<"a">>}

ConvMessages ==
  {ChatMessage(role, <<TextPart(t)>>) : role \in ConvRoles, t \in ConvTexts}

ConvInputs ==
  UNION {[1..n -> ConvMessages] : n \in 0..MaxConvLen}

ConvInit ==
  /\ OrchInit
  /\ convIn \in ConvInputs
  /\ convOut = NotCalled
  /\ GwIdle
  /\ SideIdle

Convert ==
  /\ ~convOut.returned
  /\ convOut' = [returned |-> TRUE, value |-> ConvertReqMsgList(convIn)]
  /\ UNCHANGED <<convIn, orchVars, gwVars, sideVars>>

ConvNext == Convert

SpecConv == ConvInit /\ [][ConvNext]_vars

(***************************************************************************)
(* functions/api: the server.  Strings the code splits or trims are        *)
(* sequences of characters; identifiers and keys are strings.              *)
(***************************************************************************)
RECURSIVE TrimStart(_)
TrimStart(str) ==
  IF str # <<>> /\ Head(str) = " " THEN TrimStart(Tail(str)) ELSE str

RECURSIVE TrimEnd(_)
TrimEnd(str) ==
  IF str # <<>> /\ Last(str) = " " THEN TrimEnd(Front(str)) ELSE str

\* String.prototype.trim
Trim(str) == TrimEnd(TrimStart(str))

RECURSIVE Split(_, _)
\* String.prototype.split(sep), sep one character
Split(str, sep) ==
  IF \A k \in 1..Len(str) : str[k] # sep THEN <<str>>
  ELSE LET k == CHOOSE k \in 1..Len(str) :
                  str[k] = sep /\ \A l \in 1..(k - 1) : str[l] # sep
       IN <<SubSeq(str, 1, k - 1)>> \o Split(SubSeq(str, k + 1, Len(str)), sep)

\* Array.prototype.includes
Includes(list, x) == \E k \in 1..Len(list) : list[k] = x

\* sitePassword ? sitePassword.split(',').map(s => s.trim()) : []
PassList(sitePassword) ==
  IF sitePassword = <<>> THEN <<>>
  ELSE LET entries == Split(sitePassword, ",")
       IN [k \in 1..Len(entries) |-> Trim(entries[k])]

\* the password check of /api/generate
PasswordAccepted(env, pass) ==
  LET sitePassword == Trim(env.SITE_PASSWORD)
      passList == PassList(sitePassword)
  IN ~(sitePassword # <<>>
       /\ ~(pass = sitePassword \/ Includes(passList, pass)))

\* ok of /api/auth
AuthOk(env, pass) ==
  LET realPassword == Trim(env.SITE_PASSWORD)
      passList == PassList(realPassword)
  IN realPassword = <<>> \/ pass = realPassword \/ Includes(passList, pass)

\* `model_${i + 1}`, i the 0-based index of the entry
ModelIndexId(k) == <<"model_1", "model_2", "model_3">>[k]

GptDefault == "gpt-4o-mini"

GeminiDefault == "gemini-2.5-flash"

\* the entries of MODELS_JSON, shaped and not filtered
FromJson_NoFilter(parsed) ==
  [k \in 1..Len(parsed) |->
     [id |-> IF parsed[k].id # "" THEN parsed[k].id ELSE ModelIndexId(k),
      provider |-> parsed[k].provider,
      model |-> parsed[k].model,
      apiKey |-> parsed[k].apiKey]]

\* the entries of MODELS_JSON, shaped and filtered
FromJson(parsed) ==
  LET shaped == [k \in 1..Len(parsed) |->
                   [id |-> IF parsed[k].id # "" THEN parsed[k].id
                                                ELSE ModelIndexId(k),
                    provider |-> parsed[k].provider,
                    model |-> parsed[k].model,
                    apiKey |-> parsed[k].apiKey]]
  IN SelectSeq(shaped,
               LAMBDA m : m.provider \in {"openai", "gemini"} /\ m.model # "")

\* the value of MODELS_JSON: a text that parses to an array of entries, or
\* one that does not parse
Json(entries) == [parses |-> TRUE, value |-> entries]

NotJson == [parses |-> FALSE, value |-> <<>>]

\* readJSON: the parsed array; null, like an unset variable, adds nothing
ReadJSON(val) == IF val.parses THEN val.value ELSE <<>>

LoadModelsFromEnv(env) ==
  FromJson(ReadJSON(env.MODELS_JSON))
    \o (IF env.OPENAI_API_KEY # "" /\ env.OPENAI_MODEL_NAME # ""
          THEN <<[id |-> "openai_env", provider |-> "openai",
                  model |-> env.OPENAI_MODEL_NAME,
                  apiKey |-> env.OPENAI_API_KEY]>>
          ELSE <<>>)
    \o (IF env.GEMINI_API_KEY # ""
          THEN <<[id |-> "gemini_env", provider |-> "gemini",
                  model |-> GeminiDefault, apiKey |-> env.GEMINI_API_KEY]>>
          ELSE <<>>)

\* getModelById of the gateway; the result is <<cfg>>, or <<>> for null
GetModelById(configs, id) ==
  IF configs = <<>> THEN <<>>
  ELSE IF id = "" THEN <<configs[1]>>
  ELSE LET found == SelectSeq(configs, LAMBDA m : m.id = id)
       IN IF found = <<>> THEN <<>> ELSE <<found[1]>>

\* pickDefaultModelId of /api/models; "" for null
PickDefaultModelId(env, configs) ==
  LET ofProvider ==
        SelectSeq(configs, LAMBDA m : m.provider = env.AI_PROVIDER)
      explicit ==
        SelectSeq(configs, LAMBDA m : m.id = env.DEFAULT_MODEL_ID)
  IN IF configs = <<>> THEN ""
     ELSE IF env.AI_PROVIDER \in {"openai", "gemini"} /\ ofProvider # <<>>
       THEN ofProvider[1].id
     ELSE IF env.DEFAULT_MODEL_ID # "" /\ explicit # <<>>
       THEN explicit[1].id
     ELSE configs[1].id

\* the fallback selection of onRequestPost when getModelById returns null
FallbackConfig(env) ==
  LET openaiEnv == [id |-> "openai_env", provider |-> "openai",
                    model |-> IF env.OPENAI_MODEL_NAME # ""
                                THEN env.OPENAI_MODEL_NAME ELSE GptDefault,
                    apiKey |-> ""]
      geminiEnv == [id |-> "gemini_env", provider |-> "gemini",
                    model |-> GeminiDefault, apiKey |-> ""]
  IN IF env.AI_PROVIDER = "openai" /\ env.OPENAI_API_KEY # "" THEN openaiEnv
     ELSE IF env.AI_PROVIDER = "gemini" /\ env.GEMINI_API_KEY # ""
       THEN geminiEnv
     ELSE IF env.OPENAI_API_KEY # "" THEN openaiEnv
     ELSE geminiEnv

ContentError == "Message must contain text or images"

OpenAIKeyError == "OPENAI_API_KEY is required for OpenAI provider"

ProviderError == "provider request failed"

\* the parts of the new turn that become content: a part with non-empty
\* text, an image part
ContentOf(newMessageParts) ==
  SelectSeq(newMessageParts,
            LAMBDA part : part.kind = "image" \/ part.text # <<>>)

\* what an adapter did: the error it threw ("" when it returned a stream)
\* and the number of calls it made to the provider
Thrown(message, calls) == [error |-> message, networkCalls |-> calls]

\* the call to the provider: a stream, or an error response
CallProvider(providerOk) ==
  Thrown(IF providerOk THEN "" ELSE ProviderError, 1)

\* cfg?.apiKey || env.OPENAI_API_KEY, cfg?.apiKey || env.GEMINI_API_KEY
ApiKeyFor(env, cfg) ==
  IF cfg.apiKey # "" THEN cfg.apiKey
  ELSE IF cfg.provider = "openai" THEN env.OPENAI_API_KEY
  ELSE env.GEMINI_API_KEY

StreamFromOpenAI(env, newMessageParts, cfg, providerOk) ==
  LET apiKey == ApiKeyFor(env, cfg)
  IN IF apiKey = "" THEN Thrown(OpenAIKeyError, 0)
     ELSE IF ContentOf(newMessageParts) = <<>> THEN Thrown(ContentError, 0)
     ELSE CallProvider(providerOk)

\* the adapter without the test of parts.length
StreamFromGemini_NoContentCheck(env, newMessageParts, cfg, providerOk) ==
  CallProvider(providerOk)

\* the adapter has no check of the key: the SDK client is built with
\* whatever string it is given and sendMessageStream makes the call
StreamFromGemini(env, newMessageParts, cfg, providerOk) ==
  IF ContentOf(newMessageParts) = <<>> THEN Thrown(ContentError, 0)
  ELSE CallProvider(providerOk)

HistoryError ==
  "Invalid message history: The last message must be from user role."

PasswordError == "Invalid password."

SignatureError == "Invalid signature."

\* a response of /api/generate, with what ran before it (history): the
\* password check, the signature check, the adapter called, the calls made
\* to the provider and the configuration resolved
Respond(status, message, stage) ==
  [returned |-> TRUE, status |-> status, error |-> message, code |-> 0,
   passwordChecked |-> stage.passwordChecked,
   signatureChecked |-> stage.signatureChecked,
   adapter |-> stage.adapter, networkCalls |-> stage.networkCalls,
   modelUsed |-> stage.modelUsed, models |-> <<>>, defaultModelId |-> ""]

AtStart ==
  [passwordChecked |-> FALSE, signatureChecked |-> FALSE, adapter |-> "none",
   networkCalls |-> 0, modelUsed |-> ""]

\* the configuration onRequestPost hands to the adapter
ResolveConfig(env, modelId) ==
  LET found == GetModelById(LoadModelsFromEnv(env), modelId)
  IN IF found = <<>> THEN FallbackConfig(env) ELSE found[1]

\* onRequestPost of functions/api/generate.ts
OnRequestPost(in) ==
  LET body == in.body
      env == in.env
      atPassword == [AtStart EXCEPT !.passwordChecked = TRUE]
      atSignature == [atPassword EXCEPT !.signatureChecked = TRUE]
      cfg == ResolveConfig(env, body.modelId)
      newMessageParts == Last(body.messages).parts
      result == IF cfg.provider = "openai"
                  THEN StreamFromOpenAI(env, newMessageParts, cfg,
                                        in.providerOk)
                  ELSE StreamFromGemini(env, newMessageParts, cfg,
                                        in.providerOk)
      atAdapter ==
        [passwordChecked |-> TRUE,
         signatureChecked |-> env.PUBLIC_SECRET_KEY,
         adapter |-> cfg.provider, networkCalls |-> result.networkCalls,
         modelUsed |-> cfg.id]
  IN IF ~body.json THEN Respond(500, "Internal Error", AtStart)
     ELSE IF ~body.isArray \/ ~GatewayAcceptsShape(body.messages)
       THEN Respond(400, HistoryError, AtStart)
     ELSE IF ~PasswordAccepted(env, body.pass)
       THEN Respond(401, PasswordError, atPassword)
     ELSE IF env.PUBLIC_SECRET_KEY /\ ~body.signOk
       THEN Respond(401, SignatureError, atSignature)
     ELSE IF result.error # "" THEN Respond(500, result.error, atAdapter)
     ELSE Respond(200, "", atAdapter)

\* onRequestPost of functions/api/auth.ts: a body that is no JSON counts as
\* the empty password
AuthOnRequestPost(in) ==
  LET pass == IF in.body.json THEN in.body.pass ELSE <<>>
      ok == AuthOk(in.env, pass)
  IN [Respond(200, "", [AtStart EXCEPT !.passwordChecked = TRUE])
        EXCEPT !.code = IF ok THEN 0 ELSE -1]

\* publicModels handing out the whole configuration
PublicModels_WithKey(configs) == configs

\* publicModels: the fields a listing shows (the label goes with the id)
PublicModels(configs) ==
  [k \in 1..Len(configs) |->
     [id |-> configs[k].id, provider |-> configs[k].provider,
      model |-> configs[k].model]]

\* pickDefaultModelId of src/pages/api/models.ts; "" for null
PagesPickDefaultModelId(env, configs) ==
  LET explicit ==
        SelectSeq(configs, LAMBDA m : m.id = env.DEFAULT_MODEL_ID)
  IN IF configs = <<>> THEN ""
     ELSE IF env.DEFAULT_MODEL_ID # "" /\ explicit # <<>>
       THEN explicit[1].id
     ELSE configs[1].id

\* a response { models, defaultModelId }
Listing(items, def) ==
  [Respond(200, "", AtStart) EXCEPT !.models = items, !.defaultModelId = def]

\* onRequestGet of functions/api/models.ts
OnRequestGet(in) ==
  LET configs == LoadModelsFromEnv(in.env)
  IN Listing(PublicModels(configs), PickDefaultModelId(in.env, configs))

\* get of src/pages/api/models.ts, which loads the registry the same way
PagesGet(in) ==
  LET configs == LoadModelsFromEnv(in.env)
  IN Listing(PublicModels(configs), PagesPickDefaultModelId(in.env, configs))

\* createDisplayName of utils/models.ts on an entry without a label, over
\* the ids and model names of the registry inputs: the snake_case id is
\* turned into title case; without an id the model name is used with its
\* first character in upper case, and without a model name the text
\* "provider:" is left
CreateDisplayName(m) ==
  IF m.id = "openai_env" THEN "Openai Env"
  ELSE IF m.model = "g" THEN "G"
  ELSE IF m.provider = "openai" THEN "openai:"
  ELSE IF m.provider = "gemini" THEN "gemini:"
  ELSE "other:"

\* loadModelsFromEnv of utils/models.ts
UtilsLoadModelsFromEnv(env) ==
  LET parsed == ReadJSON(env.MODELS_JSON)
      shaped == [k \in 1..Len(parsed) |->
                   [id |-> CreateDisplayName(parsed[k]),
                    provider |-> parsed[k].provider,
                    model |-> parsed[k].model,
                    apiKey |-> parsed[k].apiKey]]
  IN SelectSeq(shaped,
               LAMBDA m : m.provider \in {"openai", "gemini"} /\ m.model # "")
     \o (IF env.OPENAI_API_KEY # "" /\ env.OPENAI_MODEL_NAME # ""
           THEN <<[id |-> "OpenAI (ENV)", provider |-> "openai",
                   model |-> env.OPENAI_MODEL_NAME,
                   apiKey |-> env.OPENAI_API_KEY]>>
           ELSE <<>>)
     \o (IF env.GEMINI_API_KEY # ""
           THEN <<[id |-> "Gemini (ENV)", provider |-> "gemini",
                   model |-> GeminiDefault, apiKey |-> env.GEMINI_API_KEY]>>
           ELSE <<>>)

\* the selection of startChatAndSendMessageStream: <<m>>, or <<>> where it
\* throws 'Invalid modelId'
StartChatSelect(env, modelId) ==
  LET registry == UtilsLoadModelsFromEnv(env)
      targetModelId == IF modelId # "" THEN modelId
                       ELSE PagesPickDefaultModelId(env, registry)
  IN IF registry = <<>> THEN <<>>
     ELSE IF targetModelId = ""
            THEN <<registry[1]>>
            ELSE LET found == SelectSeq(registry,
                                        LAMBDA m : m.id = targetModelId)
                 IN IF found = <<>> THEN <<>> ELSE <<found[1]>>

(***************************************************************************)
(* The server called on its own: /api/generate, /api/auth and the two      *)
(* /api/models answer one request each                                     *)
(***************************************************************************)
PassChars == {"a", ",", " "}

\* SITE_PASSWORD and pass: every string of at most MaxPassLen characters
PassStrings == UNION {[1..n -> PassChars] : n \in 0..MaxPassLen}

\* the parts of a turn: none, an empty text, a text, an image
TurnPartsSent ==
  {<<>>, <<TextPart(<<>>)>>, <<TextPart(<<"h">>)>>, <<ImagePart>>}

\* message lists: earlier turns carry a text, the last turn any parts
GwMessageLists ==
  {<<>>} \cup
  UNION {{[k \in 1..n |-> ChatMessage(roles[k],
                                      IF k = n THEN parts
                                               ELSE <<TextPart(<<"h">>)>>)] :
            roles \in [1..n -> ConvRoles], parts \in TurnPartsSent} :
         n \in 1..MaxGwMsgs}

\* an entry of MODELS_JSON without id and key
JsonModel(provider) ==
  [id |-> "", provider |-> provider, model |-> "g", apiKey |-> ""]

GwEnvs ==
  [SITE_PASSWORD : {<<>>, <<"a">>},
   PUBLIC_SECRET_KEY : BOOLEAN,
   MODELS_JSON : {Json(<<>>), Json(<<JsonModel("openai")>>),
                  Json(<<JsonModel("gemini")>>)},
   OPENAI_API_KEY : {"", "k"},
   OPENAI_MODEL_NAME : {"", "m"},
   GEMINI_API_KEY : {"", "k"},
   AI_PROVIDER : {"", "openai", "gemini"},
   DEFAULT_MODEL_ID : {"", "gemini_env"}]

\* an environment with one OpenAI model and no password
PlainEnv ==
  [SITE_PASSWORD |-> <<>>, PUBLIC_SECRET_KEY |-> FALSE,
   MODELS_JSON |-> Json(<<>>),
   OPENAI_API_KEY |-> "k", OPENAI_MODEL_NAME |-> "m", GEMINI_API_KEY |-> "",
   AI_PROVIDER |-> "", DEFAULT_MODEL_ID |-> ""]

GwBodies ==
  [json : {TRUE}, isArray : BOOLEAN, messages : GwMessageLists,
   pass : {<<>>, <<"a">>}, signOk : BOOLEAN,
   modelId : {"", "openai_env", "model_1", "zz"}]

\* a well-formed body: one user turn with a text
PlainBody ==
  [json |-> TRUE, isArray |-> TRUE,
   messages |-> <<ChatMessage("user", <<TextPart(<<"h">>)>>)>>,
   pass |-> <<>>, signOk |-> TRUE, modelId |-> ""]

\* the requests: to /api/generate every body in every environment (a body
\* that is not an array carries no list, a signature is wrong only where a
\* secret is set), a body that is no JSON, and to both endpoints every
\* password with every configured password
GwRequests ==
  {in \in [endpoint : {"generate"}, env : GwEnvs, body : GwBodies,
           providerOk : BOOLEAN] :
     /\ in.body.isArray \/ in.body.messages = <<>>
     /\ in.env.PUBLIC_SECRET_KEY \/ in.body.signOk}
  \cup
  {[endpoint |-> e, env |-> PlainEnv,
    body |-> [PlainBody EXCEPT !.json = FALSE], providerOk |-> TRUE] :
     e \in {"generate", "auth"}}
  \cup
  {[endpoint |-> e, env |-> [PlainEnv EXCEPT !.SITE_PASSWORD = site],
    body |-> [PlainBody EXCEPT !.pass = pass], providerOk |-> TRUE] :
     e \in {"generate", "auth"}, site \in PassStrings, pass \in PassStrings}

\* the entries a MODELS_JSON array holds
JsonEntries ==
  [id : {"", "openai_env"}, provider : {"openai", "gemini", "other"},
   model : {"", "g"}, apiKey : {"", "k"}]

\* the environments of a listing: every MODELS_JSON of at most
\* MaxJsonModels entries or no JSON at all, and the single-provider settings
ListEnvs ==
  [SITE_PASSWORD : {<<>>}, PUBLIC_SECRET_KEY : {FALSE},
   MODELS_JSON :
     {NotJson} \cup
     {Json(e) : e \in UNION {[1..n -> JsonEntries] : n \in 0..MaxJsonModels}},
   OPENAI_API_KEY : {"", "k"},
   OPENAI_MODEL_NAME : {"", "m"},
   GEMINI_API_KEY : {"", "k", "s"},
   AI_PROVIDER : {"", "gemini"},
   DEFAULT_MODEL_ID : {"", "gemini_env"}]

ListRequests ==
  [endpoint : {"models", "pagesModels"}, env : ListEnvs, body : {PlainBody},
   providerOk : {TRUE}]

GwInit ==
  /\ OrchInit
  /\ storage = <<>>
  /\ legacy = NoLegacy
  /\ ConvIdle
  /\ SideIdle
  /\ gwIn \in GwRequests \cup ListRequests
  /\ gwOut = NoResponse

Generate ==
  /\ gwIn.endpoint = "generate"
  /\ ~gwOut.returned
  /\ gwOut' = OnRequestPost(gwIn)
  /\ UNCHANGED <<gwIn, orchVars, convVars, sideVars>>

Auth ==
  /\ gwIn.endpoint = "auth"
  /\ ~gwOut.returned
  /\ gwOut' = AuthOnRequestPost(gwIn)
  /\ UNCHANGED <<gwIn, orchVars, convVars, sideVars>>

Models ==
  /\ gwIn.endpoint = "models"
  /\ ~gwOut.returned
  /\ gwOut' = OnRequestGet(gwIn)
  /\ UNCHANGED <<gwIn, orchVars, convVars, sideVars>>

PagesModels ==
  /\ gwIn.endpoint = "pagesModels"
  /\ ~gwOut.returned
  /\ gwOut' = PagesGet(gwIn)
  /\ UNCHANGED <<gwIn, orchVars, convVars, sideVars>>

GwNext == Generate \/ Auth \/ Models \/ PagesModels

SpecGateway == GwInit /\ [][GwNext]_vars

(***************************************************************************)
(* updateSession called on its own                                         *)
(***************************************************************************)
\* the session lists: at most MaxListLen sessions with distinct ids, each
\* written at some time from 1 to MaxListLen
ListInputs ==
  UNION {{[i \in 1..n |-> [CreateNewSession(<<ids[i]>>, 1)
                             EXCEPT !.updatedAt = stamps[i]]] :
            ids \in {f \in [1..n -> 1..MaxListLen] :
                       \A i, j \in 1..n : i # j => f[i] # f[j]},
            stamps \in [1..n -> 1..MaxListLen]} :
         n \in 0..MaxListLen}

\* the calls: a list, the id of one of its sessions or of none (<<0>>), the
\* updates { messages, title }, and the time of the call, which is not
\* before any time already written
UpdateCalls ==
  [fn : {"updateSession"}, sessions : ListInputs,
   sessionId : {<<k>> : k \in 0..MaxListLen},
   messages : {<<>>, <<ChatMessage("user", <<TextPart(<<"h">>)>>)>>},
   title : {NewChat, <<"h">>},
   now : {MaxListLen, MaxListLen + 1}]

UpdateInit ==
  /\ OrchInit
  /\ ConvIdle
  /\ GwIdle
  /\ callIn \in UpdateCalls
  /\ callOut = NotCalled
  /\ tabs = <<>>

UpdateCall ==
  /\ callIn.fn = "updateSession"
  /\ ~callOut.returned
  /\ callOut' = [returned |-> TRUE,
                 value |-> UpdateSession(callIn.sessions, callIn.sessionId,
                                         callIn.messages, callIn.title,
                                         callIn.now)]
  /\ UNCHANGED <<callIn, tabs, orchVars, convVars, gwVars>>

UpdateNext == UpdateCall

SpecUpdate == UpdateInit /\ [][UpdateNext]_vars

(***************************************************************************)
(* generateSessionTitle called on its own                                  *)
(***************************************************************************)
\* a text of n characters whose characters beyond the limit differ
TextOfLen(n) == [i \in 1..n |-> IF i <= TitleLimit THEN "x" ELSE "y"]

TitleParts ==
  {TextPart(TextOfLen(n)) :
     n \in {0, 1, TitleLimit - 1, TitleLimit, TitleLimit + 1}}
  \cup {ImagePart}

TitlePartLists == UNION {[1..n -> TitleParts] : n \in 0..MaxTitleParts}

\* model messages, then no user message or a user message of any parts,
\* followed or not by a later user message
TitleInputs ==
  {[i \in 1..k |-> ChatMessage("model", <<TextPart(<<"a">>)>>)] \o rest :
     k \in 0..MaxLead,
     rest \in {<<>>} \cup
              UNION {{<<ChatMessage("user", ps)>>,
                      <<ChatMessage("user", ps),
                        ChatMessage("user", <<TextPart(<<"z">>)>>)>>} :
                     ps \in TitlePartLists}}

TitleInit ==
  /\ OrchInit
  /\ ConvIdle
  /\ GwIdle
  /\ callIn \in [fn : {"generateSessionTitle"}, messages : TitleInputs]
  /\ callOut = NotCalled
  /\ tabs = <<>>

TitleCall ==
  /\ callIn.fn = "generateSessionTitle"
  /\ ~callOut.returned
  /\ callOut' = [returned |-> TRUE,
                 value |-> GenerateSessionTitle(callIn.messages)]
  /\ UNCHANGED <<callIn, tabs, orchVars, convVars, gwVars>>

TitleNext == TitleCall

SpecTitle == TitleInit /\ [][TitleNext]_vars

(***************************************************************************)
(* The model menu of the page: the listing fetched in onMount, the model   *)
(* id kept in localStorage under 'currentModelId', and the id sent with a  *)
(* request.  The deployment may be configured anew between two visits;     *)
(* localStorage outlives both the page and the deployment.                 *)
(***************************************************************************)
\* the configurations of the deployment the page is served by
SelectEnvs ==
  {[PlainEnv EXCEPT !.MODELS_JSON = j, !.OPENAI_API_KEY = o,
                    !.GEMINI_API_KEY = g] :
     j \in {Json(<<>>), Json(<<JsonModel("openai")>>)},
     o \in {"", "k"}, g \in {"", "k"}}

\* the signals of a page that has just been opened over what localStorage
\* holds; "" is null, sent holds the modelId of the last request body
OpenedPage(saved) ==
  [returned |-> FALSE, mountPc |-> "pre", loaded |-> FALSE, models |-> <<>>,
   currentModelId |-> "", saved |-> saved, sent |-> <<>>]

\* the answer of GET /api/models of the deployment
FetchModels ==
  IF callIn.endpoint = "models"
    THEN OnRequestGet([env |-> callIn.env])
    ELSE PagesGet([env |-> callIn.env])

SelectInit ==
  /\ OrchInit
  /\ ConvIdle
  /\ GwIdle
  /\ callIn \in [fn : {"modelMenu"}, endpoint : {"models", "pagesModels"},
                   env : SelectEnvs]
  /\ callOut = OpenedPage("")
  /\ tabs = <<>>

\* onMount's "Load model options": the fetch fails or is not ok and nothing
\* is set, or the listing is stored and the model id chosen
LoadModels ==
  /\ callIn.fn = "modelMenu"
  /\ callOut.mountPc = "pre"
  /\ \E ok \in BOOLEAN :
       LET data == FetchModels
           defId == IF callOut.saved # "" THEN callOut.saved
                    ELSE IF data.defaultModelId # "" THEN data.defaultModelId
                    ELSE IF data.models # <<>> THEN data.models[1].id
                    ELSE ""
       IN callOut' = IF ok
                       THEN [callOut EXCEPT !.mountPc = "done",
                                            !.loaded = TRUE,
                                            !.models = data.models,
                                            !.currentModelId = defId]
                       ELSE [callOut EXCEPT !.mountPc = "done"]
  /\ UNCHANGED <<callIn, tabs, orchVars, convVars, gwVars>>

\* a click on entry k of the model menu
SelectModel(k) ==
  /\ callIn.fn = "modelMenu"
  /\ k \in 1..Len(callOut.models)
  /\ callOut' = [callOut EXCEPT !.currentModelId = callOut.models[k].id,
                                !.saved = callOut.models[k].id]
  /\ UNCHANGED <<callIn, tabs, orchVars, convVars, gwVars>>

\* requestWithLatestMessage builds the request body: modelId is the signal
SendModelId ==
  /\ callIn.fn = "modelMenu"
  /\ callOut' = [callOut EXCEPT
                   !.sent = <<[modelId |-> callOut.currentModelId,
                               loaded |-> callOut.loaded]>>]
  /\ UNCHANGED <<callIn, tabs, orchVars, convVars, gwVars>>

\* the page is opened again: the signals start anew, localStorage is kept
ReopenPage ==
  /\ callIn.fn = "modelMenu"
  /\ callOut.mountPc = "done"
  /\ callOut' = OpenedPage(callOut.saved)
  /\ UNCHANGED <<callIn, tabs, orchVars, convVars, gwVars>>

\* the deployment is given another configuration
Redeploy ==
  /\ callIn.fn = "modelMenu"
  /\ \E e \in SelectEnvs \ {callIn.env} : callIn' = [callIn EXCEPT !.env = e]
  /\ UNCHANGED <<callOut, tabs, orchVars, convVars, gwVars>>

SelectNext ==
  \/ LoadModels
  \/ \E k \in 1..Len(callOut.models) : SelectModel(k)
  \/ SendModelId
  \/ ReopenPage
  \/ Redeploy

SpecSelect == SelectInit /\ [][SelectNext]_vars

(***************************************************************************)
(* Two pages open on the same origin: each has its own signals, both read  *)
(* and write the one localStorage.  A handler of a page is one action.     *)
(* Requests are started and left pending.                                  *)
(***************************************************************************)
Tabs == {1, 2}

\* a page that has just been opened; migrations counts the sessions its
\* calls of migrateLegacyData have returned (history, kept over a reload)
FreshPage ==
  [mountPc |-> "pre", migrations |-> 0,
   st |-> [sessions |-> <<>>, storage |-> <<>>, legacy |-> NoLegacy,
           currentSessionId |-> NULL, uploadedImages |-> 0,
           messageList |-> <<>>, currentError |-> FALSE,
           currentAssistantMessage |-> <<>>, loading |-> FALSE,
           controller |-> NULL, reqs |-> <<>>, nextId |-> 0]]

\* the signals of page t together with what localStorage holds now
PageState(t) ==
  [tabs[t].st EXCEPT !.storage = storage, !.legacy = legacy,
                     !.nextId = nextId]

\* what a handler of a page did (history); unloaded is the session list a
\* page held when it was unloaded
TabEvent(op, t) ==
  [op |-> op, tab |-> t, preStorage |-> storage, preLegacy |-> legacy,
   unloaded |-> <<>>]

\* page t has run a handler that left it in st
TabCommit(t, st, pc, e) ==
  /\ tabs' = [tabs EXCEPT
                ![t].st = [st EXCEPT !.storage = <<>>, !.legacy = NoLegacy,
                                     !.nextId = 0],
                ![t].mountPc = pc,
                ![t].migrations =
                   IF e.op = "mount" /\ LegacyMigrates(legacy)
                     THEN @ + 1 ELSE @]
  /\ storage' = st.storage
  /\ legacy' = st.legacy
  /\ nextId' = st.nextId
  /\ ev' = e
  /\ steps < MaxTabSteps
  /\ steps' = steps + 1
  /\ UNCHANGED <<mountPc, sessions, currentSessionId, uploadedImages,
                 messageList, currentError, currentAssistantMessage, loading,
                 controller, reqs, now, convVars, gwVars, callIn, callOut>>

\* what localStorage holds when the first page is opened
TabStores ==
  [chatSessions : {<<>>, <<StoredSession>>},
   messageList : {NoLegacy, CorruptLegacy, LegacyLog(<<>>), StoredLegacy}]

TabsInit ==
  /\ mountPc = "pre"
  /\ sessions = <<>>
  /\ \E store \in TabStores :
       storage = store.chatSessions /\ legacy = store.messageList
  /\ currentSessionId = NULL
  /\ uploadedImages = 0
  /\ messageList = <<>>
  /\ currentError = FALSE
  /\ currentAssistantMessage = <<>>
  /\ loading = FALSE
  /\ controller = NULL
  /\ reqs = <<>>
  /\ nextId = 1
  /\ now = InitNow
  /\ ev = NoEvent
  /\ steps = 0
  /\ ConvIdle
  /\ GwIdle
  /\ callIn = NoCall
  /\ callOut = NotCalled
  /\ tabs = [t \in Tabs |-> FreshPage]

TabMount(t) ==
  /\ tabs[t].mountPc = "pre"
  /\ TabCommit(t, Microtasks(OnMount(PageState(t), now)), "done",
               TabEvent("mount", t))

\* the page is loaded again: handleBeforeUnload runs, then the signals are
\* gone
TabReload(t) ==
  /\ tabs[t].mountPc = "done"
  /\ LET st == HandleBeforeUnload(PageState(t), now)
     IN TabCommit(t, [FreshPage.st EXCEPT !.storage = st.storage,
                                         !.legacy = st.legacy,
                                         !.nextId = st.nextId],
                  "pre",
                  [TabEvent("reload", t) EXCEPT !.unloaded = st.sessions])

TabSend(t) ==
  /\ tabs[t].mountPc = "done"
  /\ ~tabs[t].st.loading
  /\ TabCommit(t, Microtasks(HandleButtonClick(PageState(t), <<"h">>, now)),
               "done", TabEvent("send", t))

TabCreate(t) ==
  /\ tabs[t].mountPc = "done"
  /\ TabCommit(t, Microtasks(CreateSession(PageState(t), now)), "done",
               TabEvent("create", t))

TabSwitch(t, id) ==
  /\ tabs[t].mountPc = "done"
  /\ id \in SessionIds(tabs[t].st.sessions)
  /\ TabCommit(t, Microtasks(SwitchToSession(PageState(t), id, now)), "done",
               TabEvent("switch", t))

TabDelete(t, id) ==
  /\ tabs[t].mountPc = "done"
  /\ id \in SessionIds(tabs[t].st.sessions)
  /\ TabCommit(t, Microtasks(HandleDeleteSession(PageState(t), id, now)),
               "done", TabEvent("delete", t))

TabsNext ==
  \E t \in Tabs :
    \/ TabMount(t)
    \/ TabReload(t)
    \/ TabSend(t)
    \/ TabCreate(t)
    \/ \E id \in SessionIds(tabs[t].st.sessions) : TabSwitch(t, id)
    \/ \E id \in SessionIds(tabs[t].st.sessions) : TabDelete(t, id)

SpecTabs == TabsInit /\ [][TabsNext]_vars

(***************************************************************************)
(* The output stream of streamFromOpenAI.  The upstream body is parsed     *)
(* into server-sent events; onParse gets each of them and enqueues its     *)
(* text on the controller of the ReadableStream that the response reads.   *)
(* A text is a sequence of characters; the controller follows the          *)
(* ReadableStreamDefaultController of the Streams standard, an exception   *)
(* being the field thrown.                                                 *)
(***************************************************************************)
MaxEvents == 3

AbsentField == [is |-> "absent", str |-> <<>>, parts |-> <<>>]

StringField(s) == [is |-> "string", str |-> s, parts |-> <<>>]

ArrayField(ps) == [is |-> "array", str |-> <<>>, parts |-> ps]

JsonData(content, text) ==
  [raw |-> "json", content |-> content, text |-> text]

RawData(raw) == [raw |-> raw, content |-> AbsentField, text |-> AbsentField]

SseEvent(type, data) == [type |-> type, data |-> data]

StreamEvents ==
  { SseEvent("reconnect-interval", RawData("")),
    SseEvent("event", RawData("[DONE]")),
    SseEvent("event", RawData("{")),
    SseEvent("event", JsonData(StringField(<<"a">>), AbsentField)),
    SseEvent("event", JsonData(StringField(<<>>), StringField(<<"b">>))),
    SseEvent("event",
             JsonData(ArrayField(<<[text |-> <<>>, content |-> <<"b">>],
                                   [text |-> <<"c">>, content |-> <<"a">>]>>),
                      AbsentField)),
    SseEvent("event", JsonData(AbsentField, StringField(<<"b">>))) }

EventLists == UNION {[1..n -> StreamEvents] : n \in 0..MaxEvents}

NewController ==
  [state |-> "readable", closeRequested |-> FALSE, queue |-> <<>>,
   readRequests |-> 0, received |-> <<>>, thrown |-> FALSE]

CanCloseOrEnqueue(c) == ~c.closeRequested /\ c.state = "readable"

ControllerEnqueue(c, chunk) ==
  IF ~CanCloseOrEnqueue(c) THEN [c EXCEPT !.thrown = TRUE]
  ELSE IF c.readRequests > 0
         THEN [c EXCEPT !.received = Append(@, chunk),
                        !.readRequests = @ - 1]
         ELSE [c EXCEPT !.queue = Append(@, chunk)]

ControllerClose(c) ==
  IF ~CanCloseOrEnqueue(c) THEN [c EXCEPT !.thrown = TRUE]
  ELSE IF c.queue = <<>>
         THEN [c EXCEPT !.closeRequested = TRUE, !.state = "closed",
                        !.readRequests = 0]
         ELSE [c EXCEPT !.closeRequested = TRUE]

ControllerError(c) ==
  IF c.state # "readable" THEN c
  ELSE [c EXCEPT !.queue = <<>>, !.state = "errored", !.readRequests = 0]

\* reader.read() of the response on the output stream
ConsumerRead(c) ==
  IF c.queue # <<>>
    THEN [c EXCEPT !.received = Append(@, Head(c.queue)),
                   !.queue = Tail(c.queue),
                   !.state = IF Tail(c.queue) = <<>> /\ c.closeRequested
                               THEN "closed" ELSE @]
    ELSE IF c.state = "readable" THEN [c EXCEPT !.readRequests = 1] ELSE c

RECURSIVE JoinParts(_)
JoinParts(ps) ==
  IF ps = <<>> THEN <<>>
  ELSE (IF Head(ps).text # <<>> THEN Head(ps).text ELSE Head(ps).content)
       \o JoinParts(Tail(ps))

DeltaText(data) ==
  IF data.content.is = "string" THEN data.content.str
  ELSE IF data.content.is = "array" THEN JoinParts(data.content.parts)
         ELSE IF data.text.is = "string" THEN data.text.str ELSE <<>>

OnParse(c, event) ==
  IF event.type # "event" THEN c
  ELSE IF event.data.raw = "[DONE]" THEN ControllerClose(c)
  ELSE IF event.data.raw # "json" THEN c
  ELSE LET text == DeltaText(event.data)
       IN IF text = <<>> THEN c
          ELSE [ControllerEnqueue(c, text) EXCEPT !.thrown = FALSE]

\* the catch block of start()
StartCatch(c) ==
  IF c.thrown THEN ControllerError([c EXCEPT !.thrown = FALSE]) ELSE c

Streaming == callIn.fn = "streamFromOpenAI"

StreamInit ==
  /\ OrchInit /\ storage = <<>> /\ legacy = NoLegacy
  /\ ConvIdle /\ GwIdle
  /\ tabs = <<>>
  /\ callIn \in [fn : {"streamFromOpenAI"}, events : EventLists]
  /\ callOut = [returned |-> FALSE,
                value |-> [fed |-> 0, controller |-> NewController]]

\* reader.read() yields a chunk holding the next event; parser.feed
UpstreamChunk ==
  /\ Streaming
  /\ ~callOut.returned
  /\ callOut.value.fed < Len(callIn.events)
  /\ LET c == OnParse(callOut.value.controller,
                      callIn.events[callOut.value.fed + 1])
     IN callOut' = [returned |-> c.thrown,
                    value |-> [fed |-> callOut.value.fed + 1,
                               controller |-> StartCatch(c)]]
  /\ UNCHANGED <<callIn, tabs, orchVars, convVars, gwVars>>

\* reader.read() yields done; controller.close() after the loop
UpstreamDone ==
  /\ Streaming
  /\ ~callOut.returned
  /\ callOut.value.fed = Len(callIn.events)
  /\ callOut' = [returned |-> TRUE,
                 value |-> [callOut.value EXCEPT !.controller =
                              StartCatch(ControllerClose(@))]]
  /\ UNCHANGED <<callIn, tabs, orchVars, convVars, gwVars>>

\* the response reads the output stream
ResponseRead ==
  /\ Streaming
  /\ ConsumerRead(callOut.value.controller) # callOut.value.controller
  /\ callOut' = [callOut EXCEPT !.value.controller = ConsumerRead(@)]
  /\ UNCHANGED <<callIn, tabs, orchVars, convVars, gwVars>>

StreamNext == UpstreamChunk \/ UpstreamDone \/ ResponseRead

SpecStream == StreamInit /\ [][StreamNext]_vars

(***************************************************************************)
(* Properties of the orchestrator                                          *)
(***************************************************************************)
ModelMessage(text) == ChatMessage("model", <<TextPart(text)>>)

\* the persisted copy of the active session holds the in-memory message list
ActivePersisted ==
  \E i \in 1..Len(storage) :
    /\ storage[i].id = currentSessionId
    /\ storage[i].messages = messageList

NoAdjacentSameRole(list) ==
  \A i \in 1..(Len(list) - 1) : list[i].role # list[i + 1].role

\* C1: when a stream that delivered a non-empty fragment ends normally and
\* no session operation ran since its request started, one model message
\* holding the accumulated text is appended to the message list, the
\* accumulator is empty and the active session's persisted messages equal the
\* message list; when the stream delivered nothing, no message is appended.
C1_StreamEndArchives ==
  ev.op = "end" /\ ev.rq.clean =>
    /\ ev.rq.emitted =>
         /\ messageList =
              Append(ev.preList,
                     ModelMessage(ev.preAcc \o DecodeFlush(ev.rq.undecoded)))
         /\ currentAssistantMessage = <<>>
         /\ ActivePersisted
    /\ ev.rq.chunks = 0 => messageList = ev.preList

\* C2: stopStreamFetch with a request in flight and accumulated text T
\* appends exactly one model message with text T and persists it, and the
\* aborted request is over: it appends no fragment and no second message.
C2_StopArchivesPartial ==
  ev.op = "stop" /\ ev.preFlight # {} /\ ev.preAcc # <<>> =>
    /\ messageList = Append(ev.preList, ModelMessage(ev.preAcc))
    /\ ActivePersisted
    /\ ev.preFlight \cap InFlightSet(reqs) = {}

\* C3: once every request has terminated, loading is false and the
\* cancellation handle is cleared.
C3_TerminatedClearsLoading ==
  reqs # <<>> /\ (\A r \in 1..Len(reqs) : ~Pending(reqs[r])) =>
    ~loading /\ controller = NULL

\* C4: at most one request is in flight.
C4_OneInFlight == Cardinality(InFlightSet(reqs)) <= 1

\* C5: switchTo with a request in flight leaves loading false, the handle
\* cleared and none of those requests in flight.
C5_SwitchAborts ==
  ev.op = "switch" /\ ev.preFlight # {} =>
    /\ ~loading
    /\ controller = NULL
    /\ ev.preFlight \cap InFlightSet(reqs) = {}

\* the session that was active when the handler began, if it survives, holds
\* in memory and in storage the message list and title of that moment
SnapshotWritten ==
  /\ \A i \in 1..Len(sessions) :
       sessions[i].id = ev.preCur =>
         /\ sessions[i].messages = ev.preList
         /\ sessions[i].title = GenerateSessionTitle(ev.preList)
  /\ \A i \in 1..Len(storage) :
       storage[i].id = ev.preCur =>
         /\ storage[i].messages = ev.preList
         /\ storage[i].title = GenerateSessionTitle(ev.preList)

\* C6 as stated: switchTo, createNew and delete each write the active
\* session's message list and title into the session list first.
C6_SnapshotOnEveryOperation ==
  ev.op \in {"switch", "create", "delete"} /\ ev.preCur # NULL =>
    SnapshotWritten

\* C6: switchTo (of a listed session) and createNew write the active
\* session's message list and title into the session list; delete does not.
C6_SnapshotOnSwitchAndCreate ==
  ev.op \in {"switch", "create"} /\ ev.preCur # NULL => SnapshotWritten

C6_Witness ==
  /\ ev.op \in {"switch", "create"}
  /\ ev.preCur # NULL
  /\ ev.preList # <<>>
  /\ \E i \in 1..Len(storage) :
       storage[i].id = ev.preCur /\ storage[i].id # currentSessionId

\* C7: after initialisation and after every delete the session list and the
\* persisted list hold a session; deleting the only session leaves exactly
\* one session, empty, titled "New Chat" and active.
C7_NeverEmpty ==
  /\ mountPc = "done" \/ ev.op = "delete" =>
       Len(sessions) >= 1 /\ Len(storage) >= 1
  /\ ev.op = "delete" /\ ev.preLen = 1 =>
       /\ Len(sessions) = 1
       /\ sessions[1].messages = <<>>
       /\ sessions[1].title = NewChat
       /\ sessions[1].id = currentSessionId
       /\ sessions[1].id # ev.id
       /\ messageList = <<>>
       /\ storage = sessions

C7_Witness == ev.op = "delete" /\ ev.preLen = 1 /\ mountPc = "done"

\* C8: after an accepted send the new user message is the last message of
\* the list and of a persisted session.
C8_SendPersists ==
  ev.op = "send" =>
    /\ Len(messageList) = Len(ev.preList) + 1
    /\ Last(messageList).role = "user"
    /\ \E i \in 1..Len(storage) :
         /\ storage[i].messages # <<>>
         /\ Last(storage[i].messages) = Last(messageList)

\* C9: the messages of every request body are non-empty, alternate in role
\* and end with a user message.
C9_BodyWellFormed ==
  \A r \in 1..Len(reqs) :
    reqs[r].pc = "fetch" =>
      /\ reqs[r].body # <<>>
      /\ NoAdjacentSameRole(reqs[r].body)
      /\ Last(reqs[r].body).role = "user"


\* C11: retryLastFetch on a non-empty list removes the last message exactly
\* when it is a model message and starts exactly one request, built from the
\* resulting list; when the stream of a request that regenerates a discarded
\* model message ends with output, the list is as long as before the retry.
C11_RetryRegenerates ==
  /\ ev.op = "retry" /\ ev.preList # <<>> =>
       /\ messageList = IF Last(ev.preList).role = "model"
                          THEN Front(ev.preList)
                          ELSE ev.preList
       /\ Len(reqs) = ev.r
       /\ InFlightSet(reqs) = ev.preFlight \cup {ev.r}
       /\ reqs[ev.r].body = RequestBody(messageList)
  /\ ev.op = "end" /\ ev.rq.emitted /\ ev.rq.replaces # NULL =>
       /\ Len(messageList) = ev.rq.replaces[1]
       /\ Last(messageList).role = "model"


\* C12: when reader.read() rejects (a network failure, not an abort) after
\* text has accumulated, the accumulated text is appended to the message
\* list as a model message and persisted, as on stopStreamFetch.
C12_StreamFailArchives ==
  ev.op = "streamFail" /\ ev.preAcc # <<>> /\ ev.preCur # NULL =>
    /\ messageList = Append(ev.preList, ModelMessage(ev.preAcc))
    /\ currentAssistantMessage = <<>>
    /\ ActivePersisted


\* the handler that ran last ended a request in failure: a response that is
\* not ok, a network error, or a stream that ended having produced nothing
RequestFailed ==
  \/ ev.op \in {"fetchNotOk", "fetchFail", "streamFail"}
  \/ ev.op = "end" /\ ~ev.rq.emitted /\ ~ev.rq.undecoded

\* C13: after a request fails (with an active session, and no session
\* operation since the request started) the persisted messages of the active
\* session equal the message list, and the failure removed no message.
C13_FailureKeepsPersisted ==
  RequestFailed /\ ev.preCur # NULL /\ ev.rq.clean =>
    /\ ActivePersisted
    /\ messageList = ev.preList


\* C26: once the component is initialised, the session list handed to the
\* sidebar is ordered by updatedAt, most recent first.
C26_SidebarSorted ==
  mountPc = "done"
  => \A i, j \in 1..Len(sessions) :
       i < j => sessions[i].updatedAt >= sessions[j].updatedAt

RECURSIVE Accumulated(_, _)
\* the fragments appended to acc in their order, a fragment "\n" left out
\* when the text before it ends in "\n"
Accumulated(frags, acc) ==
  IF frags = <<>> THEN acc
  ELSE Accumulated(Tail(frags),
                   IF Head(frags) = <<"\n">> /\ EndsWithNewline(acc)
                     THEN acc ELSE acc \o Head(frags))

\* C29: while a request reads its stream, the accumulator is the
\* concatenation in arrival order of the fragments the request has received,
\* leaving out exactly the fragments "\n" that arrived when the accumulator
\* ended in "\n".
C29_AccumulatorIsConcatenation ==
  \A r \in 1..Len(reqs) :
    reqs[r].pc = "read" /\ ~reqs[r].aborted
      => currentAssistantMessage = Accumulated(reqs[r].frags, <<>>)

(***************************************************************************)
(* Properties of convertReqMsgList                                         *)
(***************************************************************************)
\* the maximal runs of consecutive messages of one role, as <<first, last>>
MaximalRuns(list) ==
  {run \in (1..Len(list)) \X (1..Len(list)) :
     /\ run[1] <= run[2]
     /\ \A i \in run[1]..run[2] : list[i].role = list[run[1]].role
     /\ run[1] = 1 \/ list[run[1] - 1].role # list[run[1]].role
     /\ run[2] = Len(list) \/ list[run[2] + 1].role # list[run[2]].role}

\* sub is list with some messages left out, the order kept
IsSubsequence(sub, list) ==
  \E f \in [1..Len(sub) -> 1..Len(list)] :
    /\ \A k \in 1..(Len(sub) - 1) : f[k] < f[k + 1]
    /\ \A k \in 1..Len(sub) : sub[k] = list[f[k]]

\* sub is, in order, the last message of every maximal run of list
KeepsLastOfEachRun(sub, list) ==
  /\ Len(sub) = Cardinality(MaximalRuns(list))
  /\ \A run \in MaximalRuns(list) :
       sub[Cardinality({other \in MaximalRuns(list) : other[2] <= run[2]})]
         = list[run[2]]

\* C10: on a non-empty list convertReqMsgList returns a subsequence of it in
\* which no two adjacent messages have the same role, whose last message is
\* the last message of the list, and which keeps exactly the last message of
\* each maximal run of messages of one role.
C10_ConvertKeepsRunEnds ==
  convOut.returned /\ convIn # <<>> =>
    /\ IsSubsequence(convOut.value, convIn)
    /\ NoAdjacentSameRole(convOut.value)
    /\ Last(convOut.value) = Last(convIn)
    /\ KeepsLastOfEachRun(convOut.value, convIn)

\* a list with a run of two messages in the middle has been converted
C10_Witness ==
  /\ convOut.returned
  /\ Len(convIn) = MaxConvLen
  /\ Len(convOut.value) = MaxConvLen - 1
  /\ convIn[2].role = convIn[3].role
  /\ convIn[2] # convIn[3]

(***************************************************************************)
(* Properties of the server                                                *)
(***************************************************************************)
Answered(endpoint) == gwOut.returned /\ gwIn.endpoint = endpoint

\* C14: a request to /api/generate with a JSON body whose messages field is
\* not an array, is empty, or ends in an entry whose role is not user is
\* answered with status 400 and the message of the history error, and
\* neither the password check, nor the signature check, nor an adapter ran.
C14_BadHistoryIs400 ==
  /\ Answered("generate")
  /\ gwIn.body.json
  /\ \/ ~gwIn.body.isArray
     \/ gwIn.body.messages = <<>>
     \/ Last(gwIn.body.messages).role # "user"
  => /\ gwOut.status = 400
     /\ gwOut.error = HistoryError
     /\ ~gwOut.passwordChecked
     /\ ~gwOut.signatureChecked
     /\ gwOut.adapter = "none"
     /\ gwOut.networkCalls = 0

\* a list ending in a model turn, sent with a wrong password and a wrong
\* signature, was answered
C14_Witness ==
  /\ Answered("generate")
  /\ gwIn.body.messages # <<>>
  /\ Last(gwIn.body.messages).role = "model"
  /\ gwIn.env.SITE_PASSWORD = <<"a">> /\ gwIn.body.pass = <<>>
  /\ gwIn.env.PUBLIC_SECRET_KEY /\ ~gwIn.body.signOk
  /\ gwOut.status = 400

\* the entries of a comma-separated password list
PassEntries(sitePassword) ==
  LET items == Split(Trim(sitePassword), ",")
  IN {Trim(items[k]) : k \in 1..Len(items)} \ {<<>>}

PasswordRejected ==
  IF gwIn.endpoint = "auth" THEN gwOut.code = -1
  ELSE gwOut.status = 401 /\ gwOut.error = PasswordError

\* C15: with a password configured, /api/generate (once it has reached the
\* password check) and /api/auth accept a request exactly when pass is one
\* entry of the comma-separated list; every other pass, the empty string and
\* the whole string with its commas included, is rejected (401 by
\* /api/generate, code -1 by /api/auth).
C15_PasswordIsOneEntry ==
  /\ gwOut.returned
  /\ gwOut.passwordChecked
  /\ gwIn.body.json
  /\ Trim(gwIn.env.SITE_PASSWORD) # <<>>
  => (PasswordRejected <=>
        gwIn.body.pass \notin PassEntries(gwIn.env.SITE_PASSWORD))

\* the request passed the checks of history, password and signature
Resolved == Answered("generate") /\ gwOut.status \notin {400, 401}

RegistryIds ==
  LET configs == LoadModelsFromEnv(gwIn.env)
  IN {configs[k].id : k \in 1..Len(configs)}

UnknownModel ==
  gwIn.body.modelId # "" /\ gwIn.body.modelId \notin RegistryIds

InvalidModelError == "Invalid modelId"

\* C16: a request to /api/generate whose modelId is the id of no entry of
\* the loaded registry fails with the invalid-model error; no adapter is
\* called for it, no call to a provider is made and no other model is used
\* in its place.
C16_UnknownModelFails ==
  Resolved /\ UnknownModel
  => /\ gwOut.status # 200
     /\ gwOut.error = InvalidModelError
     /\ gwOut.adapter = "none"
     /\ gwOut.networkCalls = 0
     /\ gwOut.modelUsed = ""

\* an adapter was called
AdapterRan == Answered("generate") /\ gwOut.adapter # "none"

ConfigUsed == ResolveConfig(gwIn.env, gwIn.body.modelId)

\* C17: an adapter called with a configuration that yields no non-empty API
\* key (neither the entry's own nor the environment's for that provider)
\* fails, and makes no call to the provider.
C17_NoKeyNoCall ==
  AdapterRan /\ ApiKeyFor(gwIn.env, ConfigUsed) = ""
  => gwOut.status # 200 /\ gwOut.networkCalls = 0

\* the new turn has no part with a non-empty text and no image
NoContent == ContentOf(Last(gwIn.body.messages).parts) = <<>>

\* C18 as stated: an adapter called with a new turn that has no non-empty
\* text and no image fails with the content error, with no call to the
\* provider.
C18_NoContentIsContentError ==
  AdapterRan /\ NoContent
  => /\ gwOut.status # 200
     /\ gwOut.error = ContentError
     /\ gwOut.networkCalls = 0

\* C18: an adapter called with a new turn that has no non-empty text and no
\* image fails with no call to the provider; the error is the content error,
\* except that the OpenAI adapter called without a key fails with its key
\* error, which it tests first.
C18_NoContentFailsBeforeCall ==
  AdapterRan /\ NoContent
  => /\ gwOut.status # 200
     /\ gwOut.networkCalls = 0
     /\ gwOut.error =
          IF gwOut.adapter = "openai" /\ ApiKeyFor(gwIn.env, ConfigUsed) = ""
            THEN OpenAIKeyError ELSE ContentError

\* the Gemini adapter was called with newMessageParts = [] while the
\* provider would have answered, and threw the content error
C18_Witness ==
  /\ AdapterRan
  /\ gwOut.adapter = "gemini"
  /\ Last(gwIn.body.messages).parts = <<>>
  /\ gwIn.providerOk
  /\ gwOut.error = ContentError
  /\ gwOut.networkCalls = 0

\* the history check of the request fails
MalformedSequence ==
  \/ ~gwIn.body.isArray
  \/ gwIn.body.messages = <<>>
  \/ Last(gwIn.body.messages).role # "user"

\* C19: a request to /api/generate that is invalid, because its turn
\* sequence is malformed, because its last user turn has no content, or
\* because it names a model id that is not in the registry, is answered with
\* a status from 400 to 499.
C19_InvalidRequestIs4xx ==
  /\ Answered("generate")
  /\ gwIn.body.json
  /\ \/ MalformedSequence
     \/ ~MalformedSequence /\ NoContent
     \/ UnknownModel
  => gwOut.status \in 400..499

\* defaultModelId of the listing endpoint for the environment of the request
ListedDefault ==
  PickDefaultModelId(gwIn.env, LoadModelsFromEnv(gwIn.env))

\* C20: when the request to /api/generate carries no modelId and the
\* registry is not empty, the configuration handed to the adapter is the one
\* whose id /api/models returns as defaultModelId for the same environment.
C20_OmittedIsListedDefault ==
  /\ AdapterRan
  /\ gwIn.body.modelId = ""
  /\ LoadModelsFromEnv(gwIn.env) # <<>>
  => gwOut.modelUsed = ListedDefault

Listed == gwOut.returned /\ gwIn.endpoint \in {"models", "pagesModels"}

Registry == LoadModelsFromEnv(gwIn.env)

\* the entries of the preferred provider, and the entries with the
\* configured default id
OfPreferredProvider ==
  {k \in 1..Len(Registry) : Registry[k].provider = gwIn.env.AI_PROVIDER}

WithDefaultId ==
  {k \in 1..Len(Registry) : Registry[k].id = gwIn.env.DEFAULT_MODEL_ID}

\* C21: the defaultModelId of a listing is the id of the first entry of the
\* preferred provider when there is one, otherwise the configured default
\* id when it is the id of an entry, otherwise the id of the first entry;
\* it is null ("") exactly when the registry is empty.
C21_DefaultByPriority ==
  Listed
  => /\ gwOut.defaultModelId = "" <=> Registry = <<>>
     /\ Registry # <<>> =>
          gwOut.defaultModelId =
            IF OfPreferredProvider # {}
              THEN Registry[CHOOSE k \in OfPreferredProvider :
                              \A l \in OfPreferredProvider : k <= l].id
            ELSE IF WithDefaultId # {} THEN gwIn.env.DEFAULT_MODEL_ID
            ELSE Registry[1].id

\* C22: the entries of the registry a listing was made from have pairwise
\* distinct ids.
C22_IdsDistinct ==
  Listed
  => \A i, j \in 1..Len(gwOut.models) :
       i # j => gwOut.models[i].id # gwOut.models[j].id

\* the environment with every secret value replaced: the apiKey of each
\* structured entry removed, each single-provider key that is set replaced
\* by one fixed key
Redacted(env) ==
  LET json == env.MODELS_JSON
      entries == [k \in 1..Len(json.value) |->
                    [json.value[k] EXCEPT !.apiKey = ""]]
  IN [env EXCEPT !.MODELS_JSON = [json EXCEPT !.value = entries],
                 !.OPENAI_API_KEY = IF @ = "" THEN "" ELSE "k",
                 !.GEMINI_API_KEY = IF @ = "" THEN "" ELSE "k"]

ListingOf(in) ==
  IF in.endpoint = "models" THEN OnRequestGet(in) ELSE PagesGet(in)

\* C23: the response of a listing is the response for the same environment
\* with its secret values replaced, so two environments that differ only in
\* those values get the same response; and an entry of the response has the
\* fields id, provider and model and no apiKey.
C23_ListingHidesSecrets ==
  Listed
  => /\ gwOut = ListingOf([gwIn EXCEPT !.env = Redacted(gwIn.env)])
     /\ \A k \in 1..Len(gwOut.models) :
          DOMAIN gwOut.models[k] = {"id", "provider", "model"}

\* a listing was made of a structured entry with a key and of the Gemini
\* entry of an environment whose key is not the fixed one
C23_Witness ==
  /\ Listed
  /\ gwIn.env.GEMINI_API_KEY = "s"
  /\ Len(gwOut.models) = 2
  /\ \E k \in 1..Len(gwIn.env.MODELS_JSON.value) :
       /\ gwIn.env.MODELS_JSON.value[k].apiKey = "k"
       /\ gwIn.env.MODELS_JSON.value[k].provider = "openai"
       /\ gwIn.env.MODELS_JSON.value[k].model = "g"

\* provider and model of each entry of a list
Bindings(list) ==
  [k \in 1..Len(list) |-> [provider |-> list[k].provider,
                           model |-> list[k].model]]

\* the structured entries of the environment, when MODELS_JSON parses
Structured ==
  IF gwIn.env.MODELS_JSON.parses THEN gwIn.env.MODELS_JSON.value ELSE <<>>

Usable ==
  {k \in 1..Len(Structured) :
     Structured[k].provider \in {"openai", "gemini"}
       /\ Structured[k].model # ""}

\* C24: the registry a listing is made from holds, in this order, the
\* structured entries with a provider of openai or gemini and a non-empty
\* model, in their own order; one OpenAI entry exactly when both
\* OPENAI_API_KEY and OPENAI_MODEL_NAME are set; one Gemini entry exactly
\* when GEMINI_API_KEY is set.  A MODELS_JSON that does not parse adds no
\* entry and the listing is answered all the same.
C24_RegistryOrder ==
  Listed
  => /\ gwOut.status = 200
     /\ Bindings(gwOut.models) =
          Bindings(FilterIdx(Structured, Usable, 1))
            \o (IF gwIn.env.OPENAI_API_KEY # ""
                     /\ gwIn.env.OPENAI_MODEL_NAME # ""
                  THEN <<[provider |-> "openai",
                          model |-> gwIn.env.OPENAI_MODEL_NAME]>>
                  ELSE <<>>)
            \o (IF gwIn.env.GEMINI_API_KEY # ""
                  THEN <<[provider |-> "gemini", model |-> GeminiDefault]>>
                  ELSE <<>>)

\* a listing of two structured entries of which only the second is usable,
\* with both single-provider entries after it
C24_Witness ==
  /\ Listed
  /\ Len(Structured) = 2
  /\ Usable = {2}
  /\ Bindings(gwOut.models) =
       <<[provider |-> Structured[2].provider, model |-> "g"],
         [provider |-> "openai", model |-> "m"],
         [provider |-> "gemini", model |-> GeminiDefault]>>

(***************************************************************************)
(* Properties of updateSession                                             *)
(***************************************************************************)
\* C25: updateSession returns a list of the same length with the same ids
\* at the same positions; a session with another id is returned as it was,
\* updatedAt included; a session with the given id has the messages and
\* title of the updates, its other fields as before, and the time of the
\* call as updatedAt, which is not before its previous updatedAt.
C25_UpdateSessionFrame ==
  callOut.returned /\ callIn.fn = "updateSession"
  => LET before == callIn.sessions
         after == callOut.value
     IN /\ Len(after) = Len(before)
        /\ \A i \in 1..Len(before) :
             /\ after[i].id = before[i].id
             /\ before[i].id # callIn.sessionId => after[i] = before[i]
             /\ before[i].id = callIn.sessionId =>
                  /\ after[i] = [before[i] EXCEPT
                                   !.messages = callIn.messages,
                                   !.title = callIn.title,
                                   !.updatedAt = callIn.now]
                  /\ after[i].updatedAt >= before[i].updatedAt

\* the second of two sessions was updated later than both were written, and
\* the first one was returned untouched
C25_Witness ==
  /\ callOut.returned /\ callIn.fn = "updateSession"
  /\ Len(callIn.sessions) = 2
  /\ callIn.sessions[2].id = callIn.sessionId
  /\ callIn.messages # <<>>
  /\ callOut.value[2].updatedAt > callIn.sessions[1].updatedAt
  /\ callOut.value[1] = callIn.sessions[1]

(***************************************************************************)
(* Properties of the pages sharing one localStorage                        *)
(***************************************************************************)
\* the sessions all calls of migrateLegacyData have returned so far
Migrations == tabs[1].migrations + tabs[2].migrations

\* C27: over all page loads migrateLegacyData returns a session at most
\* once.  A call that returns one leaves the legacy key removed; a call that
\* finds no key, a log that does not parse or an empty log returns null and
\* leaves the key and its value as they were, so every call after a
\* successful one returns null.
C27_MigratesOnce ==
  /\ tabs # <<>> => Migrations <= 1
  /\ tabs # <<>> /\ ev.op = "mount" =>
       /\ LegacyMigrates(ev.preLegacy) => legacy = NoLegacy
       /\ ~LegacyMigrates(ev.preLegacy) => legacy = ev.preLegacy
       /\ Migrations = 1 => legacy = NoLegacy

\* a page was loaded after another page had migrated the log: its call
\* found no key and returned null
C27_Witness ==
  /\ tabs # <<>>
  /\ ev.op = "mount"
  /\ ev.preLegacy = NoLegacy
  /\ Migrations = 1
  /\ tabs[1].mountPc = "done" /\ tabs[2].mountPc = "done"

\* the last handler wrote the session list to localStorage
Saved == tabs # <<>> /\ ev.op # "init" /\ storage # ev.preStorage

\* the in-memory session list of the page that saved, as the handler left it
SavedList ==
  IF ev.op = "reload" THEN ev.unloaded ELSE tabs[ev.tab].st.sessions

\* C28: when a handler of one page has written the session list, storage
\* holds that page's in-memory list and nothing else: a session the other
\* page wrote that the saving page does not hold is gone from storage.
C28_LastWriteWins ==
  Saved
  => /\ storage = SavedList
     /\ \A id \in SessionIds(ev.preStorage) :
          id \notin SessionIds(SavedList) => id \notin SessionIds(storage)

\* a page saved while storage held a session that the other page had
\* created and the saving page had never loaded, and that session is gone
C28_Witness ==
  /\ Saved
  /\ ev.op = "send"
  /\ \E id \in SessionIds(ev.preStorage) :
       /\ id \in SessionIds(tabs[3 - ev.tab].st.sessions)
       /\ id \notin SessionIds(tabs[ev.tab].st.sessions)
       /\ id \notin SessionIds(storage)

(***************************************************************************)
(* Properties of the output stream of streamFromOpenAI                     *)
(***************************************************************************)
\* the events onParse has been given so far
Fed == SubSeq(callIn.events, 1, callOut.value.fed)

IsTerminator(event) == event.type = "event" /\ event.data.raw = "[DONE]"

Terminated == \E i \in 1..Len(Fed) : IsTerminator(Fed[i])

\* the events given to onParse ahead of the first terminator
BeforeTerminator ==
  IF Terminated
    THEN SubSeq(Fed, 1,
                (CHOOSE i \in 1..Len(Fed) :
                   /\ IsTerminator(Fed[i])
                   /\ \A j \in 1..(i - 1) : ~IsTerminator(Fed[j])) - 1)
    ELSE Fed

WellFormed(event) == event.type = "event" /\ event.data.raw = "json"

RECURSIVE TextsOf(_)
TextsOf(events) ==
  IF events = <<>> THEN <<>>
  ELSE (IF WellFormed(Head(events)) /\ DeltaText(Head(events).data) # <<>>
          THEN <<DeltaText(Head(events).data)>> ELSE <<>>)
       \o TextsOf(Tail(events))

\* what the output stream has handed over or still holds for its reader
Delivered ==
  callOut.value.controller.received \o callOut.value.controller.queue

\* C30: the output stream of the OpenAI adapter delivers, in order, the text
\* of every well-formed event ahead of the terminator and of no later event;
\* an event that is not valid JSON neither ends nor errors the stream; once
\* '[DONE]' has been seen the stream is closed.
C30_TextsUntilTerminator ==
  Streaming
  => /\ Delivered = TextsOf(BeforeTerminator)
     /\ callOut.value.controller.state # "errored"
     /\ Terminated
          => /\ callOut.value.controller.closeRequested
             /\ callOut.value.controller.queue = <<>>
                  => callOut.value.controller.state = "closed"
     /\ (~Terminated /\ ~callOut.returned)
          => callOut.value.controller.state = "readable"

(***************************************************************************)
(* Properties of generateSessionTitle                                      *)
(***************************************************************************)
Titled == callOut.returned /\ callIn.fn = "generateSessionTitle"

UserTurns == SelectSeq(callIn.messages, LAMBDA m : m.role = "user")

\* the texts of the text parts of a message, one after the other
RECURSIVE ConcatenatedText(_)
ConcatenatedText(parts) ==
  IF parts = <<>> THEN <<>>
  ELSE (IF Head(parts).kind = "text" THEN Head(parts).text ELSE <<>>)
       \o ConcatenatedText(Tail(parts))

\* the parts of a message one after the other with one space between two
\* parts, an image part standing for an empty text
RECURSIVE SpacedText(_)
SpacedText(parts) ==
  IF parts = <<>> THEN <<>>
  ELSE LET front == SubSeq(parts, 1, Len(parts) - 1)
           last == parts[Len(parts)]
           text == IF last.kind = "text" THEN last.text ELSE <<>>
       IN IF front = <<>> THEN text ELSE SpacedText(front) \o <<" ">> \o text

\* the title of a text: the text, or its first 30 characters and "..."
TitleOf(text) ==
  IF Len(text) <= 30 THEN text
  ELSE [i \in 1..33 |-> IF i <= 30 THEN text[i] ELSE "."]

\* C31: generateSessionTitle returns "New Chat" for a list without a user
\* message; otherwise the text of the first user message if it has at most
\* 30 characters, else its first 30 characters followed by "..."; a title
\* has at most 33 characters.
C31_TitleIsFirstUserText ==
  Titled
  => /\ Len(callOut.value) <= 33
     /\ callOut.value =
          IF UserTurns = <<>> THEN NewChat
          ELSE TitleOf(ConcatenatedText(UserTurns[1].parts))

\* C31, with the text as the code builds it: the parts of the first user
\* message joined by single spaces, an image part counting as an empty text.
C31_TitleIsSpacedParts ==
  Titled
  => /\ Len(callOut.value) <= 33
     /\ callOut.value =
          IF UserTurns = <<>> THEN NewChat
          ELSE TitleOf(SpacedText(UserTurns[1].parts))

\* a first user message of 30 characters and an image after a model message:
\* the title is the 30 characters and "..."
C31_Witness ==
  /\ Titled
  /\ Len(callIn.messages) = 3
  /\ callIn.messages[1].role = "model"
  /\ UserTurns[1].parts = <<TextPart(TextOfLen(30)), ImagePart>>
  /\ Len(callOut.value) = 33
  /\ callOut.value[30] = "x" /\ callOut.value[31] = "."

(***************************************************************************)
(* Properties of the orchestrator under session operations                 *)
(***************************************************************************)
\* the handler that just ran appended a model message to the message list
Archived ==
  /\ ev.op \in {"end", "stop"}
  /\ Len(messageList) = Len(ev.preList) + 1
  /\ Last(messageList).role = "model"

\* C32: a model message produced by a request is appended only to the
\* session that was active when the request was started, whatever session
\* operations ran while its stream was read.
C32_OutputToOriginOnly ==
  Archived /\ currentSessionId # NULL => currentSessionId = ev.rq.origin

\* the messages the session with this id holds in a session list
MessagesOf(list, id) ==
  list[CHOOSE i \in 1..Len(list) : list[i].id = id].messages

\* what C33 promises of a switch to the listed session id
SwitchDiscards(id) ==
  /\ currentAssistantMessage' = <<>>
  /\ currentSessionId' = id
  /\ currentSessionId # NULL
       => /\ currentSessionId \in SessionIds(storage')
          /\ MessagesOf(storage', currentSessionId) = messageList
          /\ MessagesOf(sessions', currentSessionId) = messageList
  /\ id # currentSessionId
       => /\ MessagesOf(storage', id) = MessagesOf(sessions, id)
          /\ MessagesOf(sessions', id) = MessagesOf(sessions, id)
          /\ messageList' = MessagesOf(sessions, id)
  /\ id = currentSessionId => messageList' = messageList

C34_IdleAccumulatorEmpty ==
  ~loading /\ InFlightSet(reqs) = {} => currentAssistantMessage = <<>>

\* the active session id is the id of exactly one session of the list
ActiveListedOnce ==
  Cardinality({i \in 1..Len(sessions) :
                 sessions[i].id = currentSessionId}) = 1

\* ids of which some are in no session list
ProbeIds == {GenerateSessionId(k) : k \in 0..(MaxSteps + 2)}

\* C35: once initialisation has completed, and after every switchTo,
\* createNew, delete, send and stream completion, the active session id is
\* the id of exactly one session of the in-memory list; switchTo with an id
\* that is not in the list changes nothing.
C35_ActiveSessionListed ==
  /\ (mountPc = "done"
        \/ ev.op \in {"switch", "create", "delete", "send", "end"})
       => ActiveListedOnce
  /\ \A id \in ProbeIds \ SessionIds(sessions) :
       Microtasks(SwitchToSession(State, id, now)) = State

\* C36: after switchTo, createNew, delete, send and the finalization of a
\* stream (its end or a stop), the persisted session list is the in-memory
\* session list: the same sessions in the same order with the same fields.
C36_PersistedIsInMemory ==
  ev.op \in {"switch", "create", "delete", "send", "end", "stop"}
    => storage = sessions

\* a session of the list before is in the list after with the messages and
\* title it had, and with another updatedAt
Restamped(before, after) ==
  \E i \in 1..Len(before), j \in 1..Len(after) :
    /\ after[j].id = before[i].id
    /\ after[j].messages = before[i].messages
    /\ after[j].title = before[i].title
    /\ after[j].updatedAt # before[i].updatedAt

\* C37: the updatedAt of a session changes only in a step that changes the
\* messages or the title of that session, in memory and in storage; so
\* switching away from a session or creating a session leaves the updatedAt
\* of an unmodified session as it was.
C37_UpdatedAtOnlyOnChange ==
  [][~Restamped(sessions, sessions') /\ ~Restamped(storage, storage')]_vars

(***************************************************************************)
(* Properties of the listing against the gateway                           *)
(***************************************************************************)
\* the registry entry the gateway of the same deployment uses for a listed
\* id: <<m>>, or <<>> where the id is rejected
GatewayEntry(id) ==
  IF gwIn.endpoint = "models"
    THEN GetModelById(LoadModelsFromEnv(gwIn.env), id)
    ELSE StartChatSelect(gwIn.env, id)

\* C38: for the environment of a listing, the gateway of the same deployment
\* resolves the id of every listed model to a registry entry with the
\* provider and the model name listed; it rejects none and uses no other
\* model for it.
C38_ListedIdsResolve ==
  Listed
  => \A k \in 1..Len(gwOut.models) :
       /\ GatewayEntry(gwOut.models[k].id) # <<>>
       /\ GatewayEntry(gwOut.models[k].id)[1].provider
            = gwOut.models[k].provider
       /\ GatewayEntry(gwOut.models[k].id)[1].model = gwOut.models[k].model

(***************************************************************************)
(* Properties of the model menu                                            *)
(***************************************************************************)
\* the page has loaded a listing of at least one model and has since sent a
\* request
SentAfterListing ==
  /\ callIn.fn = "modelMenu"
  /\ callOut.loaded
  /\ callOut.models # <<>>
  /\ callOut.sent # <<>>
  /\ callOut.sent[1].loaded

\* C39: once the listing has been loaded with at least one model, the model
\* id sent with a request is the id of a model of that listing, also when
\* the id was restored from localStorage.
C39_SentModelIsListed ==
  SentAfterListing
  => \E k \in 1..Len(callOut.models) :
       callOut.models[k].id = callOut.sent[1].modelId

(***************************************************************************)
(* Properties of the order of the gateway's checks                         *)
(***************************************************************************)
FailsShape ==
  \/ ~gwIn.body.isArray
  \/ gwIn.body.messages = <<>>
  \/ Last(gwIn.body.messages).role # "user"

\* a password is configured and pass is none of its entries
FailsPassword ==
  /\ Trim(gwIn.env.SITE_PASSWORD) # <<>>
  /\ gwIn.body.pass \notin PassEntries(gwIn.env.SITE_PASSWORD)

\* a secret is configured and sign is not the hash of time, last user text
\* and secret
FailsSignature == gwIn.env.PUBLIC_SECRET_KEY /\ ~gwIn.body.signOk

\* C40: a request to /api/generate that fails the check of the message
\* shape, of the password (when one is configured) or of the signature (when
\* a secret is configured) is answered with 400 for the shape and 401 for
\* password and signature, and for it no adapter is called and no call to a
\* provider is made.
C40_RejectedBeforeAdapter ==
  /\ Answered("generate")
  /\ gwIn.body.json
  /\ FailsShape \/ FailsPassword \/ FailsSignature
  => /\ gwOut.adapter = "none"
     /\ gwOut.networkCalls = 0
     /\ gwOut.status = IF FailsShape THEN 400 ELSE 401

====
